---- MODULE Spec2Model ----
(***************************************************************************)
(* Model of the redis-rust server: the per-connection handler              *)
(* (src/src/server.rs), the command set (src/src/command), the keyspace    *)
(* (src/src/db.rs) and primary-side replication with WAIT                  *)
(* (src/src/command/wait.rs).                                              *)
(*                                                                         *)
(* One primary node serves the client connections Clients and the          *)
(* connections RConns opened by replica nodes.  Every handler is a task    *)
(* of the multi-threaded runtime, so the steps of different handlers       *)
(* interleave at every await point and at every acquisition of a lock.     *)
(***************************************************************************)
EXTENDS Integers, Sequences, FiniteSets, TLC

\* ---------------------------------------------------------------- bounds
\* the replica counts and the timeouts (in clock ticks) a WAIT asks for
WaitNs == {0, 1, 2}
Timeouts == {0, 1}

Clients == {"c1", "c2"}
RConns == {"r1", "r2"}
Keys == {"x"}
StoreKeys == {"x", "y"}
Vals == {<<"1">>, <<"2">>}

\* ------------------------------------------------------ RESP and commands
None == <<"none">>

Simple(s) == <<"simple", s>>
Error(s) == <<"error", s>>
Integer(i) == <<"int", i>>
Bulk(b) == <<"bulk", b>>
Null == <<"null">>
Array(a) == <<"array", a>>

OK == Simple("OK")
QUEUED == Simple("QUEUED")

\* number of decimal digits of n, as write_decimal prints it
RECURSIVE Digits(_)
Digits(n) == IF n < 10 THEN 1 ELSE 1 + Digits(n \div 10)

\* bytes of one bulk string of len bytes on the wire: $<len>\r\n<data>\r\n
BulkLen(len) == 1 + Digits(len) + 2 + len + 2

RECURSIVE SumBulk(_)
SumBulk(lens) == IF lens = <<>> THEN 0 ELSE BulkLen(Head(lens)) + SumBulk(Tail(lens))

\* bytes of an array of bulk strings whose lengths are lens: *<n>\r\n...
ArrayLen(lens) == 1 + Digits(Len(lens)) + 2 + SumBulk(lens)

\* a command as decoded by Command::from_resp; id is the order of arrival
\* at the primary (0 for commands the primary itself issues)
Cmd(id, op, key, val, n, t) == [id |-> id, op |-> op, key |-> key, val |-> val, n |-> n, t |-> t]

SetCmd(id, k, v) == Cmd(id, "SET", k, v, 0, 0)
\* SET k v PX: t is the duration in units of 10 ms
SetPxCmd(id, k, v, t) == Cmd(id, "SET", k, v, 0, t)
TypeCmd(id, k) == Cmd(id, "TYPE", k, <<>>, 0, 0)
GetCmd(id, k) == Cmd(id, "GET", k, <<>>, 0, 0)
IncrCmd(id, k) == Cmd(id, "INCR", k, <<>>, 0, 0)
WaitCmd(id, n, t) == Cmd(id, "WAIT", "", <<>>, n, t)
MultiCmd(id) == Cmd(id, "MULTI", "", <<>>, 0, 0)
ExecCmd(id) == Cmd(id, "EXEC", "", <<>>, 0, 0)
DiscardCmd(id) == Cmd(id, "DISCARD", "", <<>>, 0, 0)
GetAckCmd == Cmd(0, "GETACK", "", <<>>, 0, 0)
PingCmd == Cmd(0, "PING", "", <<>>, 0, 0)
ReplconfCmd == Cmd(0, "REPLCONF", "capa", <<>>, 0, 0)

\* the requests a client can send as its id-th command
SetCmds(id) == {SetCmd(id, k, v) : k \in Keys, v \in Vals}
ReadCmds(id) == {GetCmd(id, k) : k \in Keys} \cup {IncrCmd(id, k) : k \in Keys}
WaitCmds(id) == {WaitCmd(id, n, t) : n \in WaitNs, t \in Timeouts}
TxnCmds(id) == {MultiCmd(id), ExecCmd(id), DiscardCmd(id)}

\* length of the text of a key (keys are one character long here)
KeyLen(k) == 1

\* bytes the request occupies on the wire: the len that parse_resp returns
Size(cmd) ==
    CASE cmd.op = "SET" /\ cmd.t = 0 -> ArrayLen(<<3, KeyLen(cmd.key), Len(cmd.val)>>)
      [] cmd.op = "SET" /\ cmd.t > 0 ->
            ArrayLen(<<3, KeyLen(cmd.key), Len(cmd.val), 2, Digits(10 * cmd.t)>>)
      [] cmd.op = "TYPE" -> ArrayLen(<<4, KeyLen(cmd.key)>>)
      [] cmd.op = "GET" -> ArrayLen(<<3, KeyLen(cmd.key)>>)
      [] cmd.op = "INCR" -> ArrayLen(<<4, KeyLen(cmd.key)>>)
      [] cmd.op = "WAIT" -> ArrayLen(<<4, Digits(cmd.n), Digits(cmd.t)>>)
      [] cmd.op = "MULTI" -> ArrayLen(<<5>>)
      [] cmd.op = "EXEC" -> ArrayLen(<<4>>)
      [] cmd.op = "DISCARD" -> ArrayLen(<<7>>)
      [] cmd.op = "GETACK" -> ArrayLen(<<8, 6, 1>>)
      [] cmd.op = "PING" -> ArrayLen(<<4>>)
      [] cmd.op = "REPLCONF" -> ArrayLen(<<8, 4, 6>>)
      [] cmd.op = "INFO" -> ArrayLen(<<4, 11>>)
      [] cmd.op = "XADD" -> ArrayLen(<<4, KeyLen(cmd.key), Len(cmd.val), 1, 1>>)

\* hardcoded length of REPLCONF GETACK * that the collector adds
GetAckLen == 37

affects_offset(cmd) == cmd.op = "SET"

\* ------------------------------------------------------- decimal strings
DigitChars == <<"0", "1", "2", "3", "4", "5", "6", "7", "8", "9">>

DigitVal(ch) == CHOOSE d \in 0..9 : DigitChars[d + 1] = ch

IsDigit(ch) == \E d \in 0..9 : DigitChars[d + 1] = ch

RECURSIVE ParseAcc(_, _)
ParseAcc(s, acc) ==
    IF s = <<>> THEN acc ELSE ParseAcc(Tail(s), acc * 10 + DigitVal(Head(s)))

\* str::parse::<u64>: -1 stands for Err
ParseU64(s) ==
    IF s # <<>> /\ \A i \in 1..Len(s) : IsDigit(s[i]) THEN ParseAcc(s, 0) ELSE -1

RECURSIVE FormatU64(_)
FormatU64(n) ==
    IF n < 10 THEN <<DigitChars[n + 1]>>
    ELSE Append(FormatU64(n \div 10), DigitChars[(n % 10) + 1])

\* ------------------------------------------------------------ variables
VARIABLES
    db,                 \* primary keyspace, State.entries: key -> bytes or None
    applied,            \* history: the writes of the keyspace, in order
    replicas,           \* the replica set, Vec<Connection>
    lock,               \* holder of the replica set's RwLock: 0 free, w collector
    master_repl_offset, \* ServerConfig.master_repl_offset
    repl_offset,        \* Connection.repl_offset of each replica connection
    ncmds,              \* commands received so far
    snap,               \* history: what each command found when it was received
    pc,                 \* position of each client handler
    cur,                \* the command a handler is executing
    is_multi,           \* Handler.is_multi
    transaction,        \* Handler.transaction
    execIdx,            \* EXEC: index of the next queued command
    responses,          \* EXEC: the replies collected so far
    tmp,                \* INCR: the value read by db.get
    out,                \* replies written to each client socket, in order
    rpc,                \* position of the handler of each replica connection
    link,               \* commands written to each replica socket, in order
    alive,              \* the peer of the replica socket is still open
    rnode,              \* replica node: handshake state
    rread,              \* replica node: commands of link it has processed
    acks,               \* REPLCONF ACK values in flight from each replica
    waits,              \* Wait::apply of each WAIT received: select and timer
    colls,              \* the ack-collector task each WAIT spawned
    state_repl_offset,  \* State.repl_offset of the keyspace, which INFO reports
    rout,               \* replica node: frames it wrote on the link to its primary
    expires_at,         \* Value.expires_at of each entry of State.entries
    expirations,        \* State.expirations: the index of (deadline, key)
    now,                \* Instant::now(), in units of 10 ms
    purger,             \* purge_expired_keys: the instant it sleeps until
    role,               \* ServerConfig.role of the node
    shutdown,           \* the shutdown signal was raised and notify_shutdown dropped
    peer,               \* the client's end of each client socket
    done,               \* the function run has completed
    frame,              \* codec: the RESP value handed to write_frame
    buffer,             \* codec: the bytes written, which travel to the reader
    seen,               \* codec: how many of them are in Connection.buffer
    result,             \* codec: what RESP::check and RESP::parse_resp make of them
    gen_len,            \* gen_rand_string: the argument len of the call (-1: no call)
    rnd_str,            \* gen_rand_string: the local rnd_str, as code points
    gen_ret,            \* gen_rand_string: the String returned
    wire,               \* upstream link: the bytes the primary has written to the socket
    sent,               \* upstream link: the commands those bytes encode
    arrived,            \* upstream link: how many of them stream.read_buf has returned
    rbuf,               \* upstream link: Connection.buffer of the replica node
    m_pc,               \* run_master: where the task stands
    m_resp,             \* run_master: the (resp, size) in hand
    m_offset,           \* run_master: the local offset
    m_acks,             \* run_master: the offsets written in REPLCONF ACK
    delivered,          \* upstream link: what the calls of read_resp returned
    hs                  \* start-up of a replica node: Listener::handshake and what follows

vars == <<db, applied, replicas, lock, master_repl_offset, repl_offset, ncmds,
          snap, pc, cur, is_multi, transaction, execIdx, responses, tmp, out,
          rpc, link, alive, rnode, rread, acks, waits, colls, state_repl_offset,
          rout, expires_at, expirations, now, purger, role, shutdown, peer, done,
          frame, buffer, seen, result, gen_len, rnd_str, gen_ret,
          wire, sent, arrived, rbuf, m_pc, m_resp, m_offset, m_acks, delivered, hs>>

keyspaceVars == <<db, applied, expires_at, expirations>>
replVars == <<replicas, lock, master_repl_offset, repl_offset>>
txnVars == <<is_multi, transaction, execIdx, responses>>
connVars == <<rpc, alive, rnode, rread, acks>>
waitVars == <<waits, colls>>
stopVars == <<shutdown, peer, done>>
codecVars == <<frame, buffer, seen, result>>
genVars == <<gen_len, rnd_str, gen_ret>>
feedVars == <<wire, sent, arrived, rbuf, m_pc, m_resp, m_offset, m_acks, delivered>>
sideVars == <<genVars, feedVars, hs>>
nodeVars == <<state_repl_offset, rout, now, purger, role, codecVars, sideVars, stopVars>>

\* Value.expires_at of an entry that was stored without a duration
NoExpiry == -1

NoCmd == Cmd(0, "NONE", "", <<>>, 0, 0)

\* a WAIT that was received by the handler of client c: el counts the
\* ticks since then (up to its timeout), rem the ticks left on its timer
NewWait(c, cmd) == [owner |-> c, n |-> cmd.n, t |-> cmd.t, st |-> "recv", el |-> 0, rem |-> 0]

\* a WAIT that was answered
OldWait(c) == [owner |-> c, n |-> 0, t |-> 0, st |-> "answered", el |-> 0, rem |-> 0]

\* a collector task: synced is the counter it shares with Wait::apply
NewColl(nrep, target, offset) ==
    [st |-> "spawned", nrep |-> nrep, target |-> target, offset |-> offset,
     synced |-> 0, skips |-> {}]

\* a collector task that has returned, and whose counter is no longer read
OldColl == [st |-> "gone", nrep |-> 0, target |-> 0, offset |-> 0, synced |-> 0, skips |-> {}]

\* a node of role ro after the replica connections of vec completed PSYNC
\* and their nodes the handshake, before any client request
Started(ro, vec) ==
    /\ role = ro
    /\ shutdown = FALSE
    /\ peer = [c \in Clients |-> "open"]
    /\ done = FALSE
    /\ db = [k \in StoreKeys |-> None]
    /\ applied = <<>>
    /\ replicas = vec
    /\ lock = 0
    /\ master_repl_offset = 0
    /\ repl_offset = [r \in RConns |-> 0]
    /\ ncmds = 0
    /\ snap = <<>>
    /\ pc = [c \in Clients |-> "read"]
    /\ cur = [c \in Clients |-> NoCmd]
    /\ is_multi = [c \in Clients |-> FALSE]
    /\ transaction = [c \in Clients |-> <<>>]
    /\ execIdx = [c \in Clients |-> 0]
    /\ responses = [c \in Clients |-> <<>>]
    /\ tmp = [c \in Clients |-> None]
    /\ out = [c \in Clients |-> <<>>]
    /\ rpc = [r \in RConns |-> IF \E i \in DOMAIN vec : vec[i] = r THEN "attached" ELSE "init"]
    /\ link = [r \in RConns |-> <<>>]
    /\ alive = [r \in RConns |-> TRUE]
    /\ rnode = [r \in RConns |-> IF \E i \in DOMAIN vec : vec[i] = r THEN "synced" ELSE "connecting"]
    /\ rread = [r \in RConns |-> 0]
    /\ acks = [r \in RConns |-> <<>>]
    /\ waits = <<>>
    /\ colls = <<>>
    /\ state_repl_offset = 0
    /\ rout = [r \in RConns |-> <<>>]
    /\ expires_at = [k \in StoreKeys |-> NoExpiry]
    /\ expirations = {}
    /\ now = 0
    /\ purger = 0
    /\ frame = None
    /\ buffer = <<>>
    /\ seen = 0
    /\ result = None
    /\ gen_len = -1
    /\ rnd_str = <<>>
    /\ gen_ret = [st |-> "idle", str |-> <<>>]
    /\ wire = <<>>
    /\ sent = <<>>
    /\ arrived = 0
    /\ rbuf = <<>>
    /\ m_pc = "parse"
    /\ m_resp = [resp |-> None, size |-> 0]
    /\ m_offset = 0
    /\ m_acks = <<>>
    /\ delivered = <<>>
    /\ hs = [step |-> 0, port |-> 0, sent |-> <<>>, got |-> <<>>, inbox |-> <<>>, ans |-> 0,
             up |-> "open", failed |-> FALSE, tasks |-> {}]

\* the primary with the replicas of vec attached
Attached(vec) == Started("master", vec)

\* the primary after start-up: no connection yet
Init == Attached(<<>>)

\* ------------------------------------------------------------- helpers
Range(f) == {f[i] : i \in DOMAIN f}

Min(a, b) == IF a < b THEN a ELSE b

\* the handler is inside the loop of EXEC over the queued commands
InExec(c) == execIdx[c] > 0

\* the command whose apply is running: the queued one inside EXEC
CurCmd(c) == IF InExec(c) THEN transaction[c][execIdx[c]] ELSE cur[c]

\* a reply on a client socket, with the command it answers
Reply(cmd, resp) == [id |-> cmd.id, op |-> cmd.op, r |-> resp]

\* a write of the keyspace, with the bytes of the request that made it
Write(cmd) == [id |-> cmd.id, op |-> cmd.op, size |-> Size(cmd)]

\* position after one queued command of EXEC returned
AfterQueued(c) == IF execIdx[c] + 1 > Len(transaction[c]) THEN "exec_done" ELSE "apply"

\* Connection::write_decimal, `let mut buf = [0u8, 20]`: the array literal
\* has two elements, so the cursor over it takes two digits
DecimalBuf == 2

\* Connection::write_decimal: `write!(&mut buf, "{}", val).unwrap()` returns
\* for a val whose digits fit the cursor and panics for any other
Fits(val) == Len(FormatU64(val)) <= DecimalBuf

\* Connection::write_frame returns for resp: no write_decimal under it panics
RECURSIVE Encodes(_)
Encodes(resp) ==
    CASE resp[1] = "int" -> Fits(resp[2])
      [] resp[1] \in {"bulk", "file"} -> Fits(Len(resp[2]))
      [] resp[1] = "array" -> Fits(Len(resp[2])) /\ \A i \in DOMAIN resp[2] : Encodes(resp[2][i])
      [] OTHER -> TRUE

\* Command::apply returned Some(resp): EXEC pushes it on the array, the
\* direct path writes it to the socket (the connection is not is_master);
\* the handler task unwinds when write_frame panics
Deliver(c, resp) ==
    IF InExec(c)
    THEN /\ responses' = [responses EXCEPT ![c] = Append(@, Reply(CurCmd(c), resp))]
         /\ execIdx' = [execIdx EXCEPT ![c] = @ + 1]
         /\ pc' = [pc EXCEPT ![c] = AfterQueued(c)]
         /\ out' = out
    ELSE IF Encodes(resp)
    THEN /\ out' = [out EXCEPT ![c] = Append(@, Reply(CurCmd(c), resp))]
         /\ pc' = [pc EXCEPT ![c] = "read"]
         /\ UNCHANGED <<responses, execIdx>>
    ELSE /\ pc' = [pc EXCEPT ![c] = "panicked"]
         /\ UNCHANGED <<responses, execIdx, out>>

\* Command::apply returned None: nothing is pushed and nothing is written
DeliverNone(c) ==
    IF InExec(c)
    THEN /\ execIdx' = [execIdx EXCEPT ![c] = @ + 1]
         /\ pc' = [pc EXCEPT ![c] = AfterQueued(c)]
         /\ responses' = responses
    ELSE /\ pc' = [pc EXCEPT ![c] = "read"]
         /\ UNCHANGED <<responses, execIdx>>

\* ValueType::Stream(Vec<StreamData>): the entries in the order of the vector
Stream(entries) == <<"stream", entries>>

IsStream(v) == Len(v) = 2 /\ v[1] = "stream"

\* Db::get and Db::set on State.entries
DbGet(k) == db[k]

DbSet(k, v) == [db EXCEPT ![k] = v]

\* Value::new: the deadline of a value stored now for duration t, if any
ExpiresAt(t) == IF t > 0 THEN now + t ELSE NoExpiry

\* Db::set on the deadline of the entry and on the index: the entry takes
\* the new deadline, the index gains an element and loses none
SetExpiry(k, t) == [expires_at EXCEPT ![k] = ExpiresAt(t)]

SetIndex_Skips(k, t) == expirations

SetIndex(k, t) == IF t > 0 THEN expirations \cup {<<ExpiresAt(t), k>>} ELSE expirations

\* ------------------------------------------------- client handler: read
\* a faulty queueing step, which executes a SET as well as queueing it
TxnQueue_Executes(c, cmd) ==
    /\ transaction' = [transaction EXCEPT ![c] = Append(@, cmd)]
    /\ out' = [out EXCEPT ![c] = Append(@, Reply(cmd, QUEUED))]
    /\ db' = IF cmd.op = "SET" THEN DbSet(cmd.key, cmd.val) ELSE db
    /\ applied' = IF cmd.op = "SET" THEN Append(applied, Write(cmd)) ELSE applied
    /\ UNCHANGED <<expires_at, expirations>>
    /\ UNCHANGED <<is_multi, execIdx, responses, pc>>

\* Handler::run, is_multi branch, arm `_`: the request is queued
TxnQueue(c, cmd) ==
    /\ transaction' = [transaction EXCEPT ![c] = Append(@, cmd)]
    /\ out' = [out EXCEPT ![c] = Append(@, Reply(cmd, QUEUED))]
    /\ UNCHANGED <<keyspaceVars, is_multi, execIdx, responses, pc>>

\* Handler::run, is_multi branch, arm Command::Discard
TxnDiscard(c, cmd) ==
    /\ is_multi' = [is_multi EXCEPT ![c] = FALSE]
    /\ transaction' = [transaction EXCEPT ![c] = <<>>]
    /\ out' = [out EXCEPT ![c] = Append(@, Reply(cmd, OK))]
    /\ UNCHANGED <<keyspaceVars, execIdx, responses, pc>>

\* Handler::run, is_multi branch, arm Command::Exec: the loop over the
\* queue starts; its iterations are the apply steps below
TxnExec(c, cmd) ==
    /\ execIdx' = [execIdx EXCEPT ![c] = 1]
    /\ responses' = [responses EXCEPT ![c] = <<>>]
    /\ pc' = [pc EXCEPT ![c] = IF transaction[c] = <<>> THEN "exec_done" ELSE "apply"]
    /\ UNCHANGED <<keyspaceVars, is_multi, transaction, out>>

\* Handler::run, branch for a connection that is not in a transaction:
\* what happens before the fan-out, the offset or the apply. The match on
\* the command is the arm Role::Master; the arm Role::Slave is empty.
\* Exec::apply and Discard::apply do nothing and return None
Dispatch(c, cmd) ==
    /\ is_multi' = [is_multi EXCEPT ![c] =
                       IF role = "master" /\ cmd.op = "MULTI" THEN TRUE ELSE @]
    /\ IF role = "master" /\ cmd.op = "EXEC"
       THEN out' = [out EXCEPT ![c] = Append(@, Reply(cmd, Error("ERR EXEC without MULTI")))]
       ELSE IF role = "master" /\ cmd.op = "DISCARD"
       THEN out' = [out EXCEPT ![c] = Append(@, Reply(cmd, Error("ERR DISCARD without MULTI")))]
       ELSE out' = out
    /\ pc' = [pc EXCEPT ![c] =
                 CASE cmd.op = "SET" -> IF role = "master" THEN "fanout" ELSE "bump"
                   [] cmd.op \in {"EXEC", "DISCARD"} -> "read"
                   [] OTHER -> "apply"]
    /\ UNCHANGED <<keyspaceVars, transaction, execIdx, responses>>

\* what a request of client c finds: the replica set, the replica
\* connections that were sent the snapshot, the replica nodes that are synced
Found(c) == [owner |-> c,
             attached |-> Range(replicas),
             served |-> {r \in RConns : rpc[r] # "init"},
             synced |-> {r \in RConns : rnode[r] = "synced"}]

\* requests that are well-formed RESP and that Command::from_resp does not
\* decode: a name that no arm of the match has, GET without its key, GET
\* with an argument after its key
UnknownCmd(id) == Cmd(id, "UNKNOWN", "", <<>>, 0, 0)
ShortGetCmd(id) == Cmd(id, "GET0", "", <<>>, 0, 0)
LongGetCmd(id) == Cmd(id, "GET2", "x", <<>>, 0, 0)

\* str::split('-'): the pieces between the separators, empty ones included
RECURSIVE SplitAcc(_, _, _)
SplitAcc(s, parts, piece) ==
    IF s = <<>> THEN Append(parts, piece)
    ELSE IF Head(s) = "-" THEN SplitAcc(Tail(s), Append(parts, piece), <<>>)
    ELSE SplitAcc(Tail(s), parts, Append(piece, Head(s)))

Split(s) == SplitAcc(s, <<>>, <<>>)

\* XRANGE key start end: val is the pair of the texts of start and end
XRangeCmd(id, k, start, end) == Cmd(id, "XRANGE", k, <<start, end>>, 0, 0)

\* XREAD [BLOCK t] STREAMS key id: val is the text of the id, n tells
\* whether BLOCK is given and t is its argument
XReadCmd(id, k, sid, block, t) == Cmd(id, "XREAD", k, sid, block, t)

\* get_range_value: a part of -1 stands for the panic of `t.parse().unwrap()`
get_range_value(string) ==
    LET ids == Split(string) IN
    <<ParseU64(ids[1]), IF Len(ids) >= 2 THEN ParseU64(ids[2]) ELSE 0>>

\* XRange::from_parts: start, end and mode of the command
XRangeParts(start, end) ==
    IF start = <<"-">>
    THEN [start |-> <<0, 0>>, end |-> get_range_value(end), mode |-> "-"]
    ELSE IF end = <<"+">>
    THEN [start |-> get_range_value(start), end |-> <<0, 0>>, mode |-> "+"]
    ELSE [start |-> get_range_value(start), end |-> get_range_value(end), mode |-> "none"]

\* one of the unwraps of get_range_value panics
RangePanics(parts) ==
    parts.start[1] < 0 \/ parts.start[2] < 0 \/ parts.end[1] < 0 \/ parts.end[2] < 0

\* Command::from_resp: the arm `_` panics, an error of from_parts or of
\* finish is returned
from_resp(cmd) ==
    CASE cmd.op = "UNKNOWN" -> "panic"
      [] cmd.op = "XRANGE" /\ RangePanics(XRangeParts(cmd.val[1], cmd.val[2])) -> "panic"
      [] cmd.op = "XREAD" /\ (get_range_value(cmd.val)[1] < 0 \/ get_range_value(cmd.val)[2] < 0)
            -> "panic"
      [] cmd.op \in {"GET0", "GET2"} -> "err"
      [] OTHER -> "ok"

\* Handler::run, `Command::from_resp(resp.clone())?`: the task unwinds on
\* the panic and returns on the error; nothing is written in either case
FromRespFails(c, cmd) ==
    /\ pc' = [pc EXCEPT ![c] = IF from_resp(cmd) = "panic" THEN "panicked" ELSE "returned"]
    /\ UNCHANGED <<keyspaceVars, txnVars, out>>

\* one request is read from the socket of client c and decoded
Recv(c, cmd) ==
    /\ pc[c] = "read"
    /\ ncmds' = ncmds + 1
    /\ snap' = snap @@ (cmd.id :> Found(c))
    /\ cur' = [cur EXCEPT ![c] = cmd]
    /\ waits' = IF cmd.op = "WAIT" THEN waits @@ (cmd.id :> NewWait(c, cmd)) ELSE waits
    /\ colls' = colls
    /\ IF from_resp(cmd) # "ok"
       THEN FromRespFails(c, cmd)
       ELSE IF is_multi[c]
       THEN CASE cmd.op = "EXEC" -> TxnExec(c, cmd)
              [] cmd.op = "DISCARD" -> TxnDiscard(c, cmd)
              [] OTHER -> TxnQueue(c, cmd)
       ELSE Dispatch(c, cmd)
    /\ UNCHANGED <<replVars, nodeVars, tmp, connVars, link>>

\* --------------------------------------------- client handler: fan-out
\* Connection::write_frame on a replica socket fails once the peer is gone
WriteOk(r) == alive[r]

\* the indices pushed on `remove`, ascending
RECURSIVE FailIdx(_, _)
FailIdx(vec, i) ==
    IF i > Len(vec) THEN <<>>
    ELSE IF WriteOk(vec[i]) THEN FailIdx(vec, i + 1)
    ELSE <<i>> \o FailIdx(vec, i + 1)

\* Vec::swap_remove: the last element takes the place of the removed one
SwapRemove(vec, i) == SubSeq([vec EXCEPT ![i] = vec[Len(vec)]], 1, Len(vec) - 1)

\* the loop `for idx in remove.iter() { replicas.swap_remove(*idx) }`;
\* swap_remove panics on an index that is out of bounds
RECURSIVE RemoveAll(_, _)
RemoveAll(vec, rm) ==
    IF rm = <<>> THEN [vec |-> vec, ok |-> TRUE]
    ELSE IF Head(rm) > Len(vec) THEN [vec |-> vec, ok |-> FALSE]
    ELSE RemoveAll(SwapRemove(vec, Head(rm)), Tail(rm))

\* a faulty fan-out, which leaves out the first replica of vec
Written_SkipsFirst(vec, msg) ==
    [r \in RConns |->
        IF \E i \in 2..Len(vec) : vec[i] = r /\ WriteOk(r) THEN Append(link[r], msg) ELSE link[r]]

\* the replica sockets after msg was written to every replica of vec
Written(vec, msg) ==
    [r \in RConns |-> IF r \in Range(vec) /\ WriteOk(r) THEN Append(link[r], msg) ELSE link[r]]

\* Handler::run, arm Command::Set of Role::Master: under the write lock,
\* the request is written to every replica and the failed ones are removed
FanOut(c) ==
    /\ pc[c] = "fanout"
    /\ lock = 0
    /\ link' = Written(replicas, cur[c])
    /\ LET res == RemoveAll(replicas, FailIdx(replicas, 1))
       IN /\ replicas' = res.vec
          /\ pc' = [pc EXCEPT ![c] = IF res.ok THEN "bump" ELSE "panicked"]
    /\ UNCHANGED <<keyspaceVars, lock, master_repl_offset, repl_offset, ncmds, nodeVars, snap, cur,
                   txnVars, tmp, out, connVars, waitVars>>

\* Handler::run, `if command.affects_offset()`: the primary-wide offset
BumpMaster(c) ==
    /\ pc[c] = "bump"
    /\ master_repl_offset' = master_repl_offset + Size(cur[c])
    /\ pc' = [pc EXCEPT ![c] = "bump_repl"]
    /\ UNCHANGED <<keyspaceVars, replicas, lock, repl_offset, ncmds, nodeVars, snap, cur, txnVars,
                   tmp, out, connVars, link, waitVars>>

\* ... and, under the write lock, the offset of every replica connection
BumpReplicas(c) ==
    /\ pc[c] = "bump_repl"
    /\ lock = 0
    /\ repl_offset' = [r \in RConns |->
                         IF r \in Range(replicas) THEN repl_offset[r] + Size(cur[c])
                         ELSE repl_offset[r]]
    /\ pc' = [pc EXCEPT ![c] = "apply"]
    /\ UNCHANGED <<keyspaceVars, replicas, lock, master_repl_offset, ncmds, nodeVars, snap, cur,
                   txnVars, tmp, out, connVars, link, waitVars>>

\* ----------------------------------------------- client handler: apply
\* Set::apply
ApplySet(c) ==
    /\ pc[c] = "apply"
    /\ CurCmd(c).op = "SET"
    /\ db' = DbSet(CurCmd(c).key, CurCmd(c).val)
    /\ expires_at' = SetExpiry(CurCmd(c).key, CurCmd(c).t)
    /\ expirations' = SetIndex(CurCmd(c).key, CurCmd(c).t)
    /\ applied' = Append(applied, Write(CurCmd(c)))
    /\ Deliver(c, OK)
    /\ UNCHANGED <<replVars, ncmds, nodeVars, snap, cur, is_multi, transaction, tmp, connVars,
                   link, waitVars>>

\* Get::apply
ApplyGet(c) ==
    /\ pc[c] = "apply"
    /\ CurCmd(c).op = "GET"
    /\ Deliver(c, IF DbGet(CurCmd(c).key) = None \/ IsStream(DbGet(CurCmd(c).key))
                  THEN Null ELSE Bulk(DbGet(CurCmd(c).key)))
    /\ UNCHANGED <<keyspaceVars, replVars, ncmds, nodeVars, snap, cur, is_multi, transaction, tmp,
                   connVars, link, waitVars>>

\* Incr::apply, first half: `let value = db.get(&self.key)`
IncrGet(c) ==
    /\ pc[c] = "apply"
    /\ CurCmd(c).op = "INCR"
    /\ tmp' = [tmp EXCEPT ![c] = DbGet(CurCmd(c).key)]
    /\ pc' = [pc EXCEPT ![c] = "incr_set"]
    /\ UNCHANGED <<keyspaceVars, replVars, ncmds, nodeVars, snap, cur, txnVars, out, connVars,
                   link, waitVars>>

\* Incr::apply, second half: the match on the value that was read
IncrSet(c) ==
    /\ pc[c] = "incr_set"
    /\ tmp' = [tmp EXCEPT ![c] = None]
    /\ IF tmp[c] = None
       THEN /\ db' = DbSet(CurCmd(c).key, <<"1">>)
            /\ expires_at' = SetExpiry(CurCmd(c).key, 0)
            /\ expirations' = SetIndex(CurCmd(c).key, 0)
            /\ applied' = Append(applied, Write(CurCmd(c)))
            /\ Deliver(c, Integer(1))
       ELSE IF IsStream(tmp[c])
       THEN \* unimplemented!("The value is a stream"): the task unwinds
            /\ pc' = [pc EXCEPT ![c] = "panicked"]
            /\ UNCHANGED <<keyspaceVars, responses, execIdx, out>>
       ELSE IF ParseU64(tmp[c]) >= 0
       THEN /\ db' = DbSet(CurCmd(c).key, FormatU64(ParseU64(tmp[c]) + 1))
            /\ expires_at' = SetExpiry(CurCmd(c).key, 0)
            /\ expirations' = SetIndex(CurCmd(c).key, 0)
            /\ applied' = Append(applied, Write(CurCmd(c)))
            /\ Deliver(c, Integer(ParseU64(tmp[c]) + 1))
       ELSE /\ UNCHANGED keyspaceVars
            /\ Deliver(c, Error("ERR value is not an integer or out of range"))
    /\ UNCHANGED <<replVars, ncmds, nodeVars, snap, cur, is_multi, transaction, connVars, link,
                   waitVars>>

\* Multi::apply
ApplyMulti(c) ==
    /\ pc[c] = "apply"
    /\ CurCmd(c).op = "MULTI"
    /\ Deliver(c, OK)
    /\ UNCHANGED <<keyspaceVars, replVars, ncmds, nodeVars, snap, cur, is_multi, transaction, tmp,
                   connVars, link, waitVars>>

\* Handler::run, arm Command::Exec after the loop: the array is written and
\* the connection leaves the transaction
ExecFinish(c) ==
    /\ pc[c] = "exec_done"
    /\ IF Fits(Len(responses[c])) /\ \A i \in DOMAIN responses[c] : Encodes(responses[c][i].r)
       THEN /\ out' = [out EXCEPT ![c] = Append(@, Reply(cur[c], Array(responses[c])))]
            /\ is_multi' = [is_multi EXCEPT ![c] = FALSE]
            /\ transaction' = [transaction EXCEPT ![c] = <<>>]
            /\ execIdx' = [execIdx EXCEPT ![c] = 0]
            /\ responses' = [responses EXCEPT ![c] = <<>>]
            /\ pc' = [pc EXCEPT ![c] = "read"]
       ELSE /\ pc' = [pc EXCEPT ![c] = "panicked"]
            /\ UNCHANGED <<out, txnVars>>
    /\ UNCHANGED <<keyspaceVars, replVars, ncmds, nodeVars, snap, cur, tmp, connVars, link, waitVars>>

\* ------------------------------------------------------------------ WAIT
\* a faulty target, which asks for no replica at all
TargetReplicas_Zero(n, nrep) == 0

\* `target_replicas`: the requested count, capped by the size of the set
TargetReplicas(n, nrep) == IF n > nrep THEN nrep ELSE n

\* Wait::apply up to the select: the replica set is read under the read
\* lock, the timer and the ack-collector task are spawned
WaitStart(c) ==
    /\ pc[c] = "apply"
    /\ CurCmd(c).op = "WAIT"
    /\ lock = 0
    /\ waits' = [waits EXCEPT ![CurCmd(c).id] = [@ EXCEPT !.st = "select", !.rem = CurCmd(c).t]]
    /\ colls' = colls @@ (CurCmd(c).id :>
                   NewColl(Len(replicas), TargetReplicas(CurCmd(c).n, Len(replicas)),
                           master_repl_offset))
    /\ pc' = [pc EXCEPT ![c] = "wait_select"]
    /\ UNCHANGED <<keyspaceVars, replVars, ncmds, nodeVars, snap, cur, txnVars, tmp, out, connVars, link>>

\* Wait::apply after the select: the count is loaded and written to the
\* client by Wait::apply itself, which returns None
WaitReply(w) ==
    /\ out' = [out EXCEPT ![waits[w].owner] = Append(@, Reply(CurCmd(waits[w].owner), Integer(colls[w].synced)))]
    /\ waits' = [waits EXCEPT ![w] = OldWait(waits[w].owner)]
    /\ colls' = [colls EXCEPT ![w] = IF @.st = "done" THEN OldColl ELSE @]
    /\ DeliverNone(waits[w].owner)
    /\ UNCHANGED <<keyspaceVars, replVars, ncmds, nodeVars, snap, cur, is_multi, transaction, tmp,
                   connVars, link>>

\* the select is left through the timer
WaitTimeout(w) ==
    /\ waits[w].st = "select"
    /\ waits[w].rem = 0
    /\ WaitReply(w)

\* the select is left through the collector task, which has returned
WaitCollected(w) ==
    /\ waits[w].st = "select"
    /\ w \in DOMAIN colls
    /\ colls[w].st = "done"
    /\ WaitReply(w)

\* a collector task returns; its counter is dropped with the last reader
Returned(w, coll) == IF waits[w].st = "answered" THEN OldColl ELSE [coll EXCEPT !.st = "done"]

\* collector task, `if config.master_repl_offset.load() == 0`
CollStart(w) ==
    /\ colls[w].st = "spawned"
    /\ colls' = [colls EXCEPT ![w] =
                   IF master_repl_offset = 0
                   THEN Returned(w, [@ EXCEPT !.synced = colls[w].nrep])
                   ELSE [@ EXCEPT !.st = "lockwait"]]
    /\ UNCHANGED <<keyspaceVars, replVars, ncmds, nodeVars, snap, pc, cur, txnVars, tmp, out,
                   connVars, link, waits>>

\* collector task: the write lock is taken and REPLCONF GETACK * is written
\* to every replica; a replica whose write failed is skipped
CollAcquire(w) ==
    /\ colls[w].st = "lockwait"
    /\ lock = 0
    /\ lock' = w
    /\ link' = Written(replicas, GetAckCmd)
    /\ repl_offset' = [r \in RConns |->
                         IF r \in Range(replicas) /\ WriteOk(r)
                         THEN repl_offset[r] + GetAckLen ELSE repl_offset[r]]
    /\ colls' = [colls EXCEPT ![w] = [@ EXCEPT !.st = "loop"]]
    /\ UNCHANGED <<keyspaceVars, replicas, master_repl_offset, ncmds, nodeVars, snap, pc, cur,
                   txnVars, tmp, out, connVars, waits>>

\* the indices whose replica answers this round of reads with an ack
Readable(w) ==
    {i \in 1..Len(replicas) : i \notin colls[w].skips /\ acks[replicas[i]] # <<>>}

\* collector task, one round of the loop: it ends when the target is
\* reached, otherwise every replica that is not yet counted is read once
\* (2 ms timeout) and counted when its ack covers the offset of the WAIT
CollPoll(w) ==
    /\ colls[w].st = "loop"
    /\ IF colls[w].synced >= colls[w].target
       THEN /\ colls' = [colls EXCEPT ![w] = Returned(w, @)]
            /\ lock' = 0
            /\ acks' = acks
       ELSE LET good == {i \in Readable(w) : Head(acks[replicas[i]]) >= colls[w].offset}
            IN /\ colls' = [colls EXCEPT ![w] =
                              [@ EXCEPT !.skips = @ \cup good,
                                        !.synced = @ + Cardinality(good)]]
               /\ acks' = [r \in RConns |->
                             IF \E i \in Readable(w) : replicas[i] = r
                             THEN Tail(acks[r]) ELSE acks[r]]
               /\ lock' = lock
    /\ UNCHANGED <<keyspaceVars, replicas, master_repl_offset, repl_offset, ncmds, nodeVars, snap,
                   pc, cur, txnVars, tmp, out, rpc, alive, rnode, rread, link, waits>>

\* a WAIT whose clock or timer still runs
Timed(w) ==
    /\ waits[w].st \in {"recv", "select"}
    /\ waits[w].el < waits[w].t \/ waits[w].rem > 0

\* one tick of the clock: el counts the ticks since the WAIT was received,
\* rem the ticks left on its timer
Tick ==
    /\ \E w \in DOMAIN waits : Timed(w)
    /\ waits' = [w \in DOMAIN waits |->
                   IF waits[w].st \in {"recv", "select"}
                   THEN [waits[w] EXCEPT !.el = Min(@ + 1, waits[w].t),
                                         !.rem = IF @ > 0 THEN @ - 1 ELSE 0]
                   ELSE waits[w]]
    /\ UNCHANGED <<keyspaceVars, replVars, ncmds, nodeVars, snap, pc, cur, txnVars, tmp, out,
                   connVars, link, colls>>

\* ----------------------------------------------- replica connections
\* PSync::apply: +FULLRESYNC and the snapshot are written to the socket
PsyncServe(r) ==
    /\ rpc[r] = "init"
    /\ alive[r]
    /\ rpc' = [rpc EXCEPT ![r] = "serving"]
    /\ UNCHANGED <<keyspaceVars, replVars, ncmds, nodeVars, snap, pc, cur, txnVars, tmp, out,
                   alive, rnode, rread, acks, link, waitVars>>

\* Handler::run, arm Command::PSync after the apply: the connection is
\* pushed on the replica set under the write lock and the handler returns
PsyncPush(r) ==
    /\ rpc[r] = "serving"
    /\ lock = 0
    /\ repl_offset' = [repl_offset EXCEPT ![r] = 0]
    /\ replicas' = Append(replicas, r)
    /\ rpc' = [rpc EXCEPT ![r] = "attached"]
    /\ UNCHANGED <<keyspaceVars, lock, master_repl_offset, ncmds, nodeVars, snap, pc, cur, txnVars,
                   tmp, out, alive, rnode, rread, acks, link, waitVars>>

\* replica node, Listener::handshake: the reply to PSYNC and the snapshot
\* have been read; the link goes to run_master
ReplicaHandshake(r) ==
    /\ rnode[r] = "connecting"
    /\ rpc[r] # "init"
    /\ alive[r]
    /\ rnode' = [rnode EXCEPT ![r] = "synced"]
    /\ UNCHANGED <<keyspaceVars, replVars, ncmds, nodeVars, snap, pc, cur, txnVars, tmp, out,
                   rpc, alive, rread, acks, link, waitVars>>

\* replica node: `offset` of run_master before the i-th command of the link
RECURSIVE ROffsetAt(_, _)
ROffsetAt(r, i) == IF i <= 1 THEN 0 ELSE ROffsetAt(r, i - 1) + Size(link[r][i - 1])

\* replica node: its keyspace after the first i commands of the link
RECURSIVE RDbAt(_, _)
RDbAt(r, i) ==
    IF i = 0 THEN [k \in StoreKeys |-> None]
    ELSE IF link[r][i].op = "SET"
    THEN [RDbAt(r, i - 1) EXCEPT ![link[r][i].key] = link[r][i].val]
    ELSE RDbAt(r, i - 1)

\* Replconf::apply: the frame it writes for REPLCONF GETACK *
AckFrame(offset) == Array(<<Bulk("REPLCONF"), Bulk("ACK"), Bulk(FormatU64(offset))>>)

\* the frames that Command::apply writes to dst itself while it runs on the
\* link to the primary; a reply that apply returns is dropped by run_master
DirectWrites(cmd, offset) ==
    CASE cmd.op = "GETACK" -> <<AckFrame(offset)>>
      [] cmd.op = "REPLCONF" -> <<OK>>
      [] cmd.op = "PING" -> <<Simple("PONG")>>
      [] OTHER -> <<>>

\* a frame on the link to the primary, with the command it answers
Answer(cmd, resp) == [op |-> cmd.op, r |-> resp]

\* replica node, one iteration of Handler::run_master: the command is
\* applied, GETACK is answered with the offset, the offset grows
ReplicaStep(r) ==
    /\ rnode[r] = "synced"
    /\ alive[r]
    /\ rread[r] < Len(link[r])
    /\ rread' = [rread EXCEPT ![r] = @ + 1]
    /\ acks' = [acks EXCEPT ![r] =
                  IF link[r][rread[r] + 1].op = "GETACK"
                  THEN Append(@, ROffsetAt(r, rread[r] + 1)) ELSE @]
    /\ LET cmd == link[r][rread[r] + 1]
           frames == DirectWrites(cmd, ROffsetAt(r, rread[r] + 1))
       IN rout' = [rout EXCEPT ![r] = @ \o [i \in DOMAIN frames |-> Answer(cmd, frames[i])]]
    /\ UNCHANGED <<keyspaceVars, replVars, ncmds, state_repl_offset, role, codecVars, sideVars, stopVars, now, purger, snap, pc,
                   cur, txnVars, tmp, out, rpc, alive, rnode, link, waitVars>>

\* the replica node goes away: its socket is closed
Disconnect(r) ==
    /\ alive[r]
    /\ rpc[r] # "init"
    /\ alive' = [alive EXCEPT ![r] = FALSE]
    /\ UNCHANGED <<keyspaceVars, replVars, ncmds, nodeVars, snap, pc, cur, txnVars, tmp, out,
                   rpc, rnode, rread, acks, link, waitVars>>

\* ---------------------------------------------------------- specifications
\* every request, every client and every replica connection
MaxCmds == 3

Inputs(id) == SetCmds(id) \cup ReadCmds(id) \cup TxnCmds(id) \cup WaitCmds(id)

Next ==
    \/ \E c \in Clients : \E cmd \in Inputs(ncmds + 1) : ncmds < MaxCmds /\ Recv(c, cmd)
    \/ \E c \in Clients : FanOut(c)
    \/ \E c \in Clients : BumpMaster(c)
    \/ \E c \in Clients : BumpReplicas(c)
    \/ \E c \in Clients : ApplySet(c)
    \/ \E c \in Clients : ApplyGet(c)
    \/ \E c \in Clients : IncrGet(c)
    \/ \E c \in Clients : IncrSet(c)
    \/ \E c \in Clients : ApplyMulti(c)
    \/ \E c \in Clients : ExecFinish(c)
    \/ \E c \in Clients : WaitStart(c)
    \/ \E w \in DOMAIN waits : WaitTimeout(w)
    \/ \E w \in DOMAIN waits : WaitCollected(w)
    \/ \E w \in DOMAIN colls : CollStart(w)
    \/ \E w \in DOMAIN colls : CollAcquire(w)
    \/ \E w \in DOMAIN colls : CollPoll(w)
    \/ Tick
    \/ \E r \in RConns : PsyncServe(r)
    \/ \E r \in RConns : PsyncPush(r)
    \/ \E r \in RConns : ReplicaHandshake(r)
    \/ \E r \in RConns : ReplicaStep(r)
    \/ \E r \in RConns : Disconnect(r)

Spec == Init /\ [][Next]_vars

\* transactions: one client works with MULTI, EXEC and DISCARD while a
\* second one writes the same key
MaxTxnCmds == 4

TxnInputs(c, id) ==
    IF c = "c1" THEN SetCmds(id) \cup ReadCmds(id) \cup TxnCmds(id)
    ELSE {SetCmd(id, "x", <<"2">>)}

NextTxn ==
    \/ \E c \in Clients : \E cmd \in TxnInputs(c, ncmds + 1) :
          ncmds < MaxTxnCmds /\ Recv(c, cmd)
    \/ \E c \in Clients : FanOut(c)
    \/ \E c \in Clients : BumpMaster(c)
    \/ \E c \in Clients : BumpReplicas(c)
    \/ \E c \in Clients : ApplySet(c)
    \/ \E c \in Clients : ApplyGet(c)
    \/ \E c \in Clients : IncrGet(c)
    \/ \E c \in Clients : IncrSet(c)
    \/ \E c \in Clients : ApplyMulti(c)
    \/ \E c \in Clients : ExecFinish(c)

SpecTxn == Init /\ [][NextTxn]_vars

\* EXEC over a queue that may hold a WAIT, with one replica attached
MaxExecCmds == 4

InitExec == Attached(<<"r1">>)

ExecClients == {"c1"}

ExecInputs(id) ==
    {SetCmd(id, "x", <<"1">>), GetCmd(id, "x"), WaitCmd(id, 1, 1), MultiCmd(id), ExecCmd(id)}

NextExec ==
    \/ \E c \in ExecClients : \E cmd \in ExecInputs(ncmds + 1) :
          ncmds < MaxExecCmds /\ Recv(c, cmd)
    \/ \E c \in Clients : FanOut(c)
    \/ \E c \in Clients : BumpMaster(c)
    \/ \E c \in Clients : BumpReplicas(c)
    \/ \E c \in Clients : ApplySet(c)
    \/ \E c \in Clients : ApplyGet(c)
    \/ \E c \in Clients : ApplyMulti(c)
    \/ \E c \in Clients : ExecFinish(c)
    \/ \E c \in Clients : WaitStart(c)
    \/ \E w \in DOMAIN waits : WaitTimeout(w)
    \/ \E w \in DOMAIN waits : WaitCollected(w)
    \/ \E w \in DOMAIN colls : CollStart(w)
    \/ \E w \in DOMAIN colls : CollAcquire(w)
    \/ \E w \in DOMAIN colls : CollPoll(w)
    \/ Tick

SpecExec == InitExec /\ [][NextExec]_vars

\* replication: one client writes, a second one writes once, while replica
\* connections attach and go away
MaxReplCmds == 2

ReplInputs(c, id) ==
    IF c = "c1" THEN {SetCmd(id, "x", <<"1">>)}
    ELSE IF \A i \in DOMAIN snap : snap[i].owner # c THEN {SetCmd(id, "x", <<"2">>)}
    ELSE {}

NextRepl ==
    \/ \E c \in Clients : \E cmd \in ReplInputs(c, ncmds + 1) :
          ncmds < MaxReplCmds /\ Recv(c, cmd)
    \/ \E c \in Clients : FanOut(c)
    \/ \E c \in Clients : BumpMaster(c)
    \/ \E c \in Clients : BumpReplicas(c)
    \/ \E c \in Clients : ApplySet(c)
    \/ \E r \in RConns : PsyncServe(r)
    \/ \E r \in RConns : PsyncPush(r)
    \/ \E r \in RConns : Disconnect(r)

SpecRepl == Init /\ [][NextRepl]_vars

\* the link to one replica node: a client writes while the node attaches
\* and processes what it is sent
MaxLinkCmds == 2

LinkClients == {"c1"}

LinkConns == {"r1"}

NextLink ==
    \/ \E c \in LinkClients : \E cmd \in SetCmds(ncmds + 1) :
          ncmds < MaxLinkCmds /\ Recv(c, cmd)
    \/ \E c \in Clients : FanOut(c)
    \/ \E c \in Clients : BumpMaster(c)
    \/ \E c \in Clients : BumpReplicas(c)
    \/ \E c \in Clients : ApplySet(c)
    \/ \E r \in LinkConns : PsyncServe(r)
    \/ \E r \in LinkConns : PsyncPush(r)
    \/ \E r \in LinkConns : ReplicaHandshake(r)
    \/ \E r \in LinkConns : ReplicaStep(r)
    \/ \E r \in LinkConns : Disconnect(r)

SpecLink == Init /\ [][NextLink]_vars

\* WAIT: one client writes and waits, with zero, one or two replicas attached
MaxWaitCmds == 3

WaitClients == {"c1"}

WaitInputs(id) ==
    {SetCmd(id, "x", <<"1">>), WaitCmd(id, 1, 0), WaitCmd(id, 2, 1)}

InitWait == \E vec \in {<<>>, <<"r1">>, <<"r1", "r2">>} : Attached(vec)

NextWait ==
    \/ \E c \in WaitClients : \E cmd \in WaitInputs(ncmds + 1) :
          ncmds < MaxWaitCmds /\ Recv(c, cmd)
    \/ \E c \in Clients : FanOut(c)
    \/ \E c \in Clients : BumpMaster(c)
    \/ \E c \in Clients : BumpReplicas(c)
    \/ \E c \in Clients : ApplySet(c)
    \/ \E c \in Clients : WaitStart(c)
    \/ \E w \in DOMAIN waits : WaitTimeout(w)
    \/ \E w \in DOMAIN waits : WaitCollected(w)
    \/ \E w \in DOMAIN colls : CollStart(w)
    \/ \E w \in DOMAIN colls : CollAcquire(w)
    \/ \E w \in DOMAIN colls : CollPoll(w)
    \/ Tick
    \/ \E r \in RConns : ReplicaStep(r)
    \/ \E r \in RConns : Disconnect(r)

SpecWait == InitWait /\ [][NextWait]_vars

\* ------------------------------------------------------------ properties
\* the last element of a sequence
Last(seq) == seq[Len(seq)]

\* ids of the commands that wrote the primary keyspace
AppliedIds == {applied[i].id : i \in DOMAIN applied}

\* ids of the commands written to the socket of replica r
LinkIds(r) == {link[r][i].id : i \in DOMAIN link[r]}

\* position of the write of command id in the history of the keyspace
AppliedPos(id) == CHOOSE i \in DOMAIN applied : applied[i].id = id

\* position of command id on the socket of replica r
LinkPos(r, id) == CHOOSE i \in DOMAIN link[r] : link[r][i].id = id

\* this step, the handler of client c reads a request
Receives(c) == pc[c] = "read" /\ ncmds' = ncmds + 1 /\ cur'[c].id = ncmds'

\* positions in the replies to client c of the requests that were queued
\* and then thrown away by DISCARD
DiscardedAt(c) ==
    {i \in DOMAIN out[c] :
        /\ out[c][i].r = QUEUED
        /\ \E j \in (i + 1)..Len(out[c]) :
              /\ out[c][j].op = "DISCARD"
              /\ out[c][j].r = OK
              /\ \A k \in (i + 1)..(j - 1) : out[c][k].r = QUEUED}

\* C1, first half: a request other than EXEC and DISCARD that arrives on a
\* connection in multi state is appended to the queue and answered +QUEUED,
\* and the keyspace is left as it was
C1_Queued ==
    \A c \in Clients :
        (Receives(c) /\ is_multi[c] /\ cur'[c].op \notin {"EXEC", "DISCARD"})
        => /\ transaction'[c] = Append(transaction[c], cur'[c])
           /\ out'[c] = Append(out[c], Reply(cur'[c], QUEUED))
           /\ is_multi'[c]
           /\ db' = db
           /\ applied' = applied

\* C1, second half: a request that is still queued, or that was queued and
\* then discarded, has never written the keyspace
C1_NeverExecuted ==
    \A c \in Clients :
        /\ \A i \in DiscardedAt(c) : out[c][i].id \notin AppliedIds
        /\ ~InExec(c) => \A i \in DOMAIN transaction[c] : transaction[c][i].id \notin AppliedIds

\* C1: in multi state every request other than EXEC and DISCARD is queued and
\* answered +QUEUED without being executed, and a discarded request is never
\* executed
C1_QueuedNotExecuted == [][C1_Queued]_vars /\ []C1_NeverExecuted

\* a SET was queued and discarded while the keyspace was written by others
C1_Witness ==
    \E c \in Clients : \E i \in DiscardedAt(c) :
        /\ out[c][i].op = "SET"
        /\ applied # <<>>
        /\ db["x"] # None

\* C2: EXEC applies the queued requests in order and answers with one array
\* that holds the result of each of them, in order, and the connection
\* leaves multi state with an empty queue
C2_ExecArray ==
    [][\A c \in Clients :
          (pc[c] = "exec_done" /\ pc'[c] = "read")
          => /\ Last(out'[c]).r[1] = "array"
             /\ Len(Last(out'[c]).r[2]) = Len(transaction[c])
             /\ \A i \in DOMAIN transaction[c] :
                   Last(out'[c]).r[2][i].id = transaction[c][i].id
             /\ ~is_multi'[c]
             /\ transaction'[c] = <<>>]_vars

\* the direct SET id of client c was answered +OK
AnsweredOK(id) ==
    \E i \in DOMAIN out[snap[id].owner] :
        /\ out[snap[id].owner][i].id = id
        /\ out[snap[id].owner][i].op = "SET"
        /\ out[snap[id].owner][i].r = OK

\* C3: when a direct SET is answered +OK, the SET has been written to every
\* replica that was in the replica set when the SET was received and that is
\* still in the set
C3_WrittenBeforeOK ==
    \A id \in DOMAIN snap :
        AnsweredOK(id) => \A r \in snap[id].attached :
                              (\E i \in DOMAIN replicas : replicas[i] = r) => id \in LinkIds(r)

\* a SET was answered +OK while both replicas were in the set at its
\* arrival, one of which has gone since and was evicted
C3_Witness ==
    \E id \in DOMAIN snap :
        /\ AnsweredOK(id)
        /\ snap[id].attached = RConns
        /\ Len(replicas) = 1
        /\ id \in LinkIds(replicas[1])

\* C4: two SETs of different connections that reach a replica reach it in the
\* order in which the primary applied them to its keyspace
C4_SameOrder ==
    \A r \in RConns : \A a, b \in LinkIds(r) \cap AppliedIds :
        (snap[a].owner # snap[b].owner /\ AppliedPos(a) < AppliedPos(b))
        => LinkPos(r, a) < LinkPos(r, b)

\* C5: a SET that was answered +OK is applied by every replica node that had
\* completed its handshake when the SET arrived and that stays connected:
\* once such a node has processed all it was sent, the SET is among it
C5_ReplicaCatchesUp ==
    \A id \in DOMAIN snap : \A r \in snap[id].synced :
        (AnsweredOK(id) /\ alive[r] /\ rread[r] = Len(link[r])) => id \in LinkIds(r)

\* bytes of the SETs among the first i writes of the keyspace
RECURSIVE AppliedBytes(_, _)
AppliedBytes(log, i) ==
    IF i = 0 THEN 0
    ELSE AppliedBytes(log, i - 1) + (IF log[i].op = "SET" THEN log[i].size ELSE 0)

\* C6: every SET the primary applies, directly or inside EXEC, is written to
\* every replica attached at that time, and master_repl_offset has grown by
\* its byte length
C6_EverySetPropagated ==
    [][(applied' # applied /\ Last(applied').op = "SET")
       => /\ \A i \in DOMAIN replicas :
                alive[replicas[i]] => Last(applied').id \in LinkIds(replicas[i])
          /\ master_repl_offset' >= AppliedBytes(applied', Len(applied'))]_vars

\* C7: a replica connection whose PSYNC was answered with the snapshot
\* receives every SET the primary receives and applies after that, in the
\* order of application
C7_NoWriteSkipped ==
    \A r \in RConns :
        /\ \A id \in AppliedIds : (r \in snap[id].served /\ alive[r]) => id \in LinkIds(r)
        /\ \A a, b \in LinkIds(r) \cap AppliedIds :
              (snap[a].owner = snap[b].owner /\ AppliedPos(a) < AppliedPos(b))
              => LinkPos(r, a) < LinkPos(r, b)

\* C8: a fan-out removes from the replica set exactly the replicas whose
\* write failed, and the handler goes on to apply and answer the SET
C8_ExactEviction ==
    [][\A c \in Clients :
          (pc[c] = "fanout" /\ pc'[c] # "fanout")
          => /\ pc'[c] = "bump"
             /\ {replicas'[i] : i \in DOMAIN replicas'} = {r \in Range(replicas) : alive[r]}]_vars

\* the count K that answers WAIT w on this step
AnswerOf(w) == Last(out'[waits[w].owner]).r[2]

\* this step, WAIT w is answered
Answers(w) == waits[w].st = "select" /\ waits'[w].st = "answered"

FairWait ==
    /\ WF_vars(\E c \in Clients : FanOut(c))
    /\ WF_vars(\E c \in Clients : BumpMaster(c))
    /\ WF_vars(\E c \in Clients : BumpReplicas(c))
    /\ WF_vars(\E c \in Clients : ApplySet(c))
    /\ WF_vars(\E c \in Clients : WaitStart(c))
    /\ WF_vars(\E w \in DOMAIN waits : WaitTimeout(w))
    /\ WF_vars(\E w \in DOMAIN waits : WaitCollected(w))
    /\ WF_vars(\E w \in DOMAIN colls : CollStart(w))
    /\ WF_vars(\E w \in DOMAIN colls : CollAcquire(w))
    /\ WF_vars(\E w \in DOMAIN colls : CollPoll(w))
    /\ WF_vars(Tick)

FairSpecWait == SpecWait /\ FairWait

\* C10: every WAIT that is received is eventually answered
C10_AlwaysAnswered ==
    \A w \in 1..MaxWaitCmds :
        (w \in DOMAIN waits /\ waits[w].st # "answered")
        ~> (w \in DOMAIN waits /\ waits[w].st = "answered")

\* ------------------------------------------------------ INFO replication
InfoCmd(id) == Cmd(id, "INFO", "", <<>>, 0, 0)

\* Db::get_repl_info: the second component, State.repl_offset
get_repl_info == state_repl_offset

\* the line of the INFO text that carries the offset
InfoLine(n) == <<"master_repl_offset:">> \o FormatU64(n)

\* the number a reader of the INFO text finds on that line
InfoOffset(resp) == ParseU64(Tail(resp[2]))

\* Info::apply: the text is built from Db::get_repl_info and returned
ApplyInfo(c) ==
    /\ pc[c] = "apply"
    /\ CurCmd(c).op = "INFO"
    /\ Deliver(c, Bulk(InfoLine(get_repl_info)))
    /\ UNCHANGED <<keyspaceVars, replVars, ncmds, nodeVars, snap, cur, is_multi, transaction,
                   tmp, connVars, link, waitVars>>

\* INFO on a primary with one replica attached, while clients write
MaxInfoCmds == 3

InfoInputs(id) == {SetCmd(id, "x", <<"1">>), InfoCmd(id)}

NextInfo ==
    \/ \E c \in Clients : \E cmd \in InfoInputs(ncmds + 1) :
          ncmds < MaxInfoCmds /\ Recv(c, cmd)
    \/ \E c \in Clients : FanOut(c)
    \/ \E c \in Clients : BumpMaster(c)
    \/ \E c \in Clients : BumpReplicas(c)
    \/ \E c \in Clients : ApplySet(c)
    \/ \E c \in Clients : ApplyInfo(c)

SpecInfo == InitExec /\ [][NextInfo]_vars

\* the bytes of the write commands written to the socket of replica r
RECURSIVE LinkBytes(_, _)
LinkBytes(r, i) ==
    IF i = 0 THEN 0
    ELSE LinkBytes(r, i - 1) + (IF link[r][i].op = "SET" THEN Size(link[r][i]) ELSE 0)

\* C11: the master_repl_offset that INFO replication reports on a primary
\* is the sum of the byte lengths of the write commands it has propagated:
\* at least the bytes of the writes already applied, at most the bytes
\* already written to the replica
C11_InfoOffsetIsPropagatedBytes ==
    [][\A c \in Clients :
          (Len(out'[c]) > Len(out[c]) /\ Last(out'[c]).op = "INFO")
          => /\ InfoOffset(Last(out'[c]).r) >= AppliedBytes(applied, Len(applied))
             /\ InfoOffset(Last(out'[c]).r) <= LinkBytes("r1", Len(link["r1"]))]_vars

\* ------------------------------------------- the link to the primary
\* the primary a replica node was started with writes a command on the link
UpstreamSend(r, cmd) ==
    /\ rnode[r] = "synced"
    /\ alive[r]
    /\ link' = [link EXCEPT ![r] = Append(@, cmd)]
    /\ UNCHANGED <<keyspaceVars, replVars, ncmds, nodeVars, snap, pc, cur, txnVars, tmp, out,
                   connVars, waitVars>>

\* a replica node and what its primary may send it
MaxUpstreamCmds == 4

UpstreamInputs == {SetCmd(0, "x", <<"1">>), GetAckCmd, PingCmd, ReplconfCmd}

NextUpstream ==
    \/ \E cmd \in UpstreamInputs : Len(link["r1"]) < MaxUpstreamCmds /\ UpstreamSend("r1", cmd)
    \/ ReplicaStep("r1")

SpecUpstream == InitExec /\ [][NextUpstream]_vars

\* C12: on the link to its primary a replica node writes nothing but a
\* REPLCONF ACK frame in answer to REPLCONF GETACK *
C12_OnlyAckOnLink ==
    \A r \in RConns : \A i \in DOMAIN rout[r] :
        /\ rout[r][i].op = "GETACK"
        /\ \E n \in 0..200 : rout[r][i].r = AckFrame(n)

\* ------------------------------------------------------------ expiry
\* Type::apply
ApplyType(c) ==
    /\ pc[c] = "apply"
    /\ CurCmd(c).op = "TYPE"
    /\ Deliver(c, IF DbGet(CurCmd(c).key) = None THEN Simple("none")
                  ELSE IF IsStream(DbGet(CurCmd(c).key)) THEN Simple("stream")
                  ELSE Simple("string"))
    /\ UNCHANGED <<keyspaceVars, replVars, ncmds, nodeVars, snap, cur, is_multi, transaction,
                   tmp, connVars, link, waitVars>>

\* clear_expired_keys: the elements of the index that the loop pops
Expired == {e \in expirations : e[1] <= now}

\* the earliest deadline of a non-empty index
NextExpiration(index) == CHOOSE t \in {e[1] : e \in index} : \A e \in index : t <= e[1]

\* purge_expired_keys, one iteration: clear_expired_keys removes the entry
\* of every popped key, then the task sleeps until the deadline that is now
\* first in the index, or for 10 ms when the index is empty
PurgerRun ==
    /\ now >= purger
    /\ db' = [k \in StoreKeys |-> IF \E e \in Expired : e[2] = k THEN None ELSE db[k]]
    /\ expires_at' = [k \in StoreKeys |->
                        IF \E e \in Expired : e[2] = k THEN NoExpiry ELSE expires_at[k]]
    /\ expirations' = expirations \ Expired
    /\ purger' = IF expirations' = {} THEN now + 1 ELSE NextExpiration(expirations')
    /\ UNCHANGED <<applied, replVars, ncmds, state_repl_offset, role, codecVars, sideVars, stopVars, rout, now, snap, pc, cur,
                   txnVars, tmp, out, connVars, link, waitVars>>

\* 10 ms pass; a timer that is due fires before more time passes
MaxNow == 4

Clock ==
    /\ now < MaxNow
    /\ purger > now
    /\ now' = now + 1
    /\ UNCHANGED <<keyspaceVars, replVars, ncmds, state_repl_offset, role, codecVars, sideVars, stopVars, rout, purger, snap, pc,
                   cur, txnVars, tmp, out, connVars, link, waitVars>>

\* one client stores keys with and without a duration and reads them
MaxTtlCmds == 3

TtlClients == {"c1"}

TtlInputs(id) ==
    {SetPxCmd(id, "x", <<"1">>, 1), SetPxCmd(id, "x", <<"1">>, 3), SetCmd(id, "x", <<"2">>),
     SetPxCmd(id, "y", <<"1">>, 1), GetCmd(id, "x"), GetCmd(id, "y"), TypeCmd(id, "y")}

NextTtl ==
    \/ \E c \in TtlClients : \E cmd \in TtlInputs(ncmds + 1) :
          ncmds < MaxTtlCmds /\ Recv(c, cmd)
    \/ \E c \in Clients : FanOut(c)
    \/ \E c \in Clients : BumpMaster(c)
    \/ \E c \in Clients : BumpReplicas(c)
    \/ \E c \in Clients : ApplySet(c)
    \/ \E c \in Clients : ApplyGet(c)
    \/ \E c \in Clients : ApplyType(c)
    \/ PurgerRun
    \/ Clock

SpecTtl == Init /\ [][NextTtl]_vars

\* the reply of GET or TYPE for a key that is absent
Absent(op) == IF op = "GET" THEN Null ELSE Simple("none")

\* C13: from 10 ms after the deadline of a key stored with a TTL, GET of the
\* key returns Null and TYPE of the key returns none
C13_GoneAfterDeadline ==
    [][\A c \in Clients :
          (/\ Len(out'[c]) > Len(out[c])
           /\ Last(out'[c]).op \in {"GET", "TYPE"}
           /\ expires_at[cur[c].key] # NoExpiry
           /\ now >= expires_at[cur[c].key] + 1)
          => Last(out'[c]).r = Absent(cur[c].op)]_vars

\* C14: a key is removed only when the deadline of the value it holds has
\* passed: the old deadline of an overwritten key removes nothing
C14_StaleDeadlineMisses ==
    [][\A k \in StoreKeys :
          (db[k] # None /\ db'[k] = None)
          => (expires_at[k] # NoExpiry /\ expires_at[k] <= now)]_vars

\* ------------------------------------------------------------- INCR
\* a key is set to the decimal 1, then two connections increment it
MaxIncrCmds == 4

IncrInputs(id) ==
    IF ncmds = 0 THEN {SetCmd(id, "x", <<"1">>)}
    ELSE IF applied = <<>> THEN {}
    ELSE {IncrCmd(id, "x")}

NextIncr ==
    \/ \E c \in Clients : \E cmd \in IncrInputs(ncmds + 1) :
          ncmds < MaxIncrCmds /\ Recv(c, cmd)
    \/ \E c \in Clients : FanOut(c)
    \/ \E c \in Clients : BumpMaster(c)
    \/ \E c \in Clients : BumpReplicas(c)
    \/ \E c \in Clients : ApplySet(c)
    \/ \E c \in Clients : IncrGet(c)
    \/ \E c \in Clients : IncrSet(c)

SpecIncr == Init /\ [][NextIncr]_vars

\* the replies to INCR written so far, as (connection, position) pairs
IncrReplies == {p \in Clients \X (1..MaxIncrCmds) :
                   p[2] <= Len(out[p[1]]) /\ out[p[1]][p[2]].op = "INCR"}

\* C15: the replies to the INCR commands on a key that held n are distinct,
\* and once the k of them are answered the key holds n + k
C15_IncrAtomic ==
    /\ \A p, q \in IncrReplies : p # q => out[p[1]][p[2]].r # out[q[1]][q[2]].r
    /\ (\A c \in Clients : pc[c] = "read") /\ applied # <<>>
          => db["x"] = FormatU64(1 + Cardinality(IncrReplies))

\* ------------------------------------------------------ EXEC as a unit
\* one connection runs MULTI, two commands and EXEC while another one writes
MaxUnitCmds == 5

UnitInputs(c, id) ==
    IF c = "c1" THEN {MultiCmd(id), SetCmd(id, "x", <<"1">>), GetCmd(id, "x"), ExecCmd(id)}
    ELSE {SetCmd(id, "x", <<"2">>)}

NextUnit ==
    \/ \E c \in Clients : \E cmd \in UnitInputs(c, ncmds + 1) :
          ncmds < MaxUnitCmds /\ Recv(c, cmd)
    \/ \E c \in Clients : FanOut(c)
    \/ \E c \in Clients : BumpMaster(c)
    \/ \E c \in Clients : BumpReplicas(c)
    \/ \E c \in Clients : ApplySet(c)
    \/ \E c \in Clients : ApplyGet(c)
    \/ \E c \in Clients : ApplyMulti(c)
    \/ \E c \in Clients : ExecFinish(c)

SpecUnit == Init /\ [][NextUnit]_vars

\* the EXEC of connection c has applied a queued command and has more to apply
MidExec(c) == execIdx[c] > 1 /\ execIdx[c] <= Len(transaction[c])

\* C16: between two commands of one EXEC, no command of another connection
\* writes the keyspace
C16_ExecIsUnit ==
    [][\A c \in Clients :
          (MidExec(c) /\ applied' # applied) => snap[Last(applied').id].owner = c]_vars

\* ------------------------------------------- transactions, either role
Roles == {"master", "slave"}

\* a node of either role after start-up, before any client request
InitRole == \E ro \in Roles : Started(ro, <<>>)

\* one client works with MULTI, EXEC and DISCARD on a node of either role
MaxRoleCmds == 3

RoleClients == {"c1"}

RoleInputs(id) ==
    {MultiCmd(id), ExecCmd(id), DiscardCmd(id), SetCmd(id, "x", <<"1">>), GetCmd(id, "x")}

NextRole ==
    \/ \E c \in RoleClients : \E cmd \in RoleInputs(ncmds + 1) :
          ncmds < MaxRoleCmds /\ Recv(c, cmd)
    \/ \E c \in Clients : FanOut(c)
    \/ \E c \in Clients : BumpMaster(c)
    \/ \E c \in Clients : BumpReplicas(c)
    \/ \E c \in Clients : ApplySet(c)
    \/ \E c \in Clients : ApplyGet(c)
    \/ \E c \in Clients : ApplyMulti(c)
    \/ \E c \in Clients : ExecFinish(c)

SpecRole == InitRole /\ [][NextRole]_vars

\* the last reply written to client c is the +OK of a MULTI
MultiAnswered(c) ==
    out[c] # <<>> /\ Last(out[c]).op = "MULTI" /\ Last(out[c]).r = OK

\* C17: on a node of either role, the request that follows a MULTI answered
\* +OK, when it is not EXEC or DISCARD, is answered +QUEUED and is not applied
C17_QueuedAfterMulti ==
    [][\A c \in Clients :
          (Receives(c) /\ MultiAnswered(c) /\ cur'[c].op \notin {"EXEC", "DISCARD"})
          => /\ out'[c] = Append(out[c], Reply(cur'[c], QUEUED))
             /\ pc'[c] = "read"
             /\ db' = db
             /\ applied' = applied]_vars

\* the error that answers EXEC or DISCARD outside a transaction
WithoutMulti(op) == Error(IF op = "EXEC" THEN "ERR EXEC without MULTI"
                                         ELSE "ERR DISCARD without MULTI")

\* C18: on a node of either role, EXEC or DISCARD on a connection that is
\* not in transaction state is answered with its error and nothing else, and
\* the keyspace and the transaction state stay as they were
C18_ErrorWithoutMulti ==
    [][\A c \in Clients :
          (Receives(c) /\ ~is_multi[c] /\ cur'[c].op \in {"EXEC", "DISCARD"})
          => /\ out'[c] = Append(out[c], Reply(cur'[c], WithoutMulti(cur'[c].op)))
             /\ pc'[c] = "read"
             /\ db' = db
             /\ applied' = applied
             /\ is_multi' = is_multi
             /\ transaction' = transaction]_vars

\* ------------------------------------------------ shutdown and disconnect
\* run: the shutdown future completes, the select is left and
\* notify_shutdown is dropped
ShutdownSignal ==
    /\ ~shutdown
    /\ shutdown' = TRUE
    /\ UNCHANGED <<keyspaceVars, replVars, ncmds, state_repl_offset, rout, now, purger, role, codecVars, sideVars,
                   peer, done, snap, pc, cur, txnVars, tmp, out, connVars, link, waitVars>>

\* Handler::run, the select: Shutdown::recv completes and the handler returns
HandlerReturn(c) ==
    /\ pc[c] = "read"
    /\ shutdown
    /\ pc' = [pc EXCEPT ![c] = "returned"]
    /\ UNCHANGED <<keyspaceVars, replVars, ncmds, nodeVars, snap, cur, txnVars, tmp, out,
                   connVars, link, waitVars>>

\* run: shutdown_cmpl_rx.recv() returns once every handler has dropped its
\* sender, by returning or by unwinding
RunComplete ==
    /\ shutdown
    /\ ~done
    /\ \A c \in Clients : pc[c] \in {"returned", "panicked"}
    /\ done' = TRUE
    /\ UNCHANGED <<keyspaceVars, replVars, ncmds, state_repl_offset, rout, now, purger, role, codecVars, sideVars,
                   shutdown, peer, snap, pc, cur, txnVars, tmp, out, connVars, link, waitVars>>

\* the client closes its socket: between two requests ("eof"), or after it
\* sent a part of a request ("reset")
PeerClose(c, how) ==
    /\ peer[c] = "open"
    /\ peer' = [peer EXCEPT ![c] = how]
    /\ UNCHANGED <<keyspaceVars, replVars, ncmds, state_repl_offset, rout, now, purger, role, codecVars, sideVars,
                   shutdown, done, snap, pc, cur, txnVars, tmp, out, connVars, link, waitVars>>

\* Connection::read_resp on a closed socket with a partial request in the
\* buffer: Err("Connection reset by peer"), which `res?` returns
ReadReset(c) ==
    /\ pc[c] = "read"
    /\ peer[c] = "reset"
    /\ pc' = [pc EXCEPT ![c] = "returned"]
    /\ UNCHANGED <<keyspaceVars, replVars, ncmds, nodeVars, snap, cur, txnVars, tmp, out,
                   connVars, link, waitVars>>

\* Connection::read_resp on a closed socket with an empty buffer: Ok(None),
\* and the handler takes `None => continue`
ReadEof(c) ==
    /\ pc[c] = "read"
    /\ peer[c] = "eof"
    /\ pc' = [pc EXCEPT ![c] = "loop"]
    /\ UNCHANGED <<keyspaceVars, replVars, ncmds, nodeVars, snap, cur, txnVars, tmp, out,
                   connVars, link, waitVars>>

\* Handler::run, the condition of the while loop after `continue`:
\* is_shutdown() is false until recv has completed, and no code sets
\* Connection.closed, so the select is entered again
LoopAgain(c) ==
    /\ pc[c] = "loop"
    /\ pc' = [pc EXCEPT ![c] = "read"]
    /\ UNCHANGED <<keyspaceVars, replVars, ncmds, nodeVars, snap, cur, txnVars, tmp, out,
                   connVars, link, waitVars>>

\* a client writes and waits with a replica attached, clients disconnect,
\* and the server is told to shut down
MaxStopCmds == 3

StopClients == {"c1"}

StopInputs(id) == {SetCmd(id, "x", <<"1">>), WaitCmd(id, 1, 1)}

Closes == {"eof", "reset"}

NextStop ==
    \/ \E c \in StopClients : \E cmd \in StopInputs(ncmds + 1) :
          ncmds < MaxStopCmds /\ peer[c] = "open" /\ Recv(c, cmd)
    \/ \E c \in Clients : FanOut(c)
    \/ \E c \in Clients : BumpMaster(c)
    \/ \E c \in Clients : BumpReplicas(c)
    \/ \E c \in Clients : ApplySet(c)
    \/ \E c \in Clients : WaitStart(c)
    \/ \E w \in DOMAIN waits : WaitTimeout(w)
    \/ \E w \in DOMAIN waits : WaitCollected(w)
    \/ \E w \in DOMAIN colls : CollStart(w)
    \/ \E w \in DOMAIN colls : CollAcquire(w)
    \/ \E w \in DOMAIN colls : CollPoll(w)
    \/ Tick
    \/ \E r \in RConns : ReplicaStep(r)
    \/ ShutdownSignal
    \/ \E c \in Clients : HandlerReturn(c)
    \/ RunComplete
    \/ \E c \in Clients : \E how \in Closes : PeerClose(c, how)
    \/ \E c \in Clients : ReadReset(c)
    \/ \E c \in Clients : ReadEof(c)
    \/ \E c \in Clients : LoopAgain(c)

SpecStop == InitExec /\ [][NextStop]_vars

\* the tasks of the server are scheduled again and again and the clock
\* advances; the select of a handler polls its branches in random order, so
\* a shutdown that stays raised is picked in the end
FairStop ==
    /\ FairWait
    /\ SF_vars(\E c \in Clients : HandlerReturn(c))
    /\ WF_vars(RunComplete)
    /\ WF_vars(\E c \in Clients : ReadReset(c))
    /\ WF_vars(\E c \in Clients : ReadEof(c))
    /\ WF_vars(\E c \in Clients : LoopAgain(c))

FairSpecStop == SpecStop /\ FairStop

\* C19: after the shutdown signal every handler task returns and run
\* completes
C19_ShutdownCompletes ==
    shutdown ~> (done /\ \A c \in Clients : pc[c] \in {"returned", "panicked"})

\* C20: the handler of a client that closed its socket returns
C20_ReturnsOnClose ==
    \A c \in Clients : (peer[c] # "open") ~> (pc[c] = "returned")

\* ------------------------------------------------- requests not decoded
\* two clients send requests, some of which from_resp does not decode
MaxBadCmds == 3

BadInputs(id) ==
    {SetCmd(id, "x", <<"1">>), GetCmd(id, "x"), UnknownCmd(id), ShortGetCmd(id), LongGetCmd(id)}

NextBad ==
    \/ \E c \in Clients : \E cmd \in BadInputs(ncmds + 1) :
          ncmds < MaxBadCmds /\ Recv(c, cmd)
    \/ \E c \in Clients : FanOut(c)
    \/ \E c \in Clients : BumpMaster(c)
    \/ \E c \in Clients : BumpReplicas(c)
    \/ \E c \in Clients : ApplySet(c)
    \/ \E c \in Clients : ApplyGet(c)

SpecBad == Init /\ [][NextBad]_vars

\* C21: a request with an unknown name or with arguments of the wrong count
\* is answered with an error reply, and the handler goes on reading
C21_ErrorReplyAndOpen ==
    [][\A c \in Clients :
          (Receives(c) /\ cur'[c].op \in {"UNKNOWN", "GET0", "GET2"})
          => /\ Len(out'[c]) = Len(out[c]) + 1
             /\ Last(out'[c]).r[1] = "error"
             /\ pc'[c] = "read"]_vars

\* ------------------------------------------------------------------ XADD
\* XADD key id field value: val is the text of the id, n the value stored
XAddCmd(id, k, sid) == Cmd(id, "XADD", k, sid, id, 0)

\* XAdd::is_stream_id_valid
is_stream_id_valid(sid) ==
    LET ids == Split(sid) IN
    IF Len(ids) > 2 THEN FALSE
    ELSE IF Len(ids) = 2 /\ ids[2] = <<"0">> THEN ids[1] # <<"0">>
    ELSE IF Len(ids) = 1 /\ ids[1] # <<"*">> THEN FALSE
    ELSE TRUE

\* the last element of the vector whose ms is t: iter().rev().find(..)
LastAt(streams, t) ==
    LET at == {i \in DOMAIN streams : streams[i].id[1] = t} IN
    IF at = {} THEN 0 ELSE CHOOSE i \in at : \A j \in at : j <= i

\* XAdd::apply, the block of next_sequence_id; -1 stands for the panic of
\* `ids[0].parse().unwrap()`
next_sequence_id(sid, streams) ==
    LET ids == Split(sid) IN
    IF ids[1] = <<"*">> THEN (IF Len(ids) = 1 THEN 0 ELSE 1)
    ELSE IF ParseU64(ids[1]) < 0 THEN -1
    ELSE IF LastAt(streams, ParseU64(ids[1])) > 0
    THEN streams[LastAt(streams, ParseU64(ids[1]))].id[2] + 1
    ELSE IF ids[1] = <<"0">> THEN 1 ELSE 0

\* XAdd::get_stream_id; ms is the reading of the clock, a part of -1 stands
\* for the panic of `t.parse().unwrap()`
get_stream_id(sid, next, ms) ==
    LET ids == Split(sid) IN
    << IF ids[1] = <<"*">> THEN ms ELSE ParseU64(ids[1]),
       IF Len(ids) >= 2
       THEN (IF ids[2] = <<"*">> THEN next ELSE ParseU64(ids[2]))
       ELSE next >>

\* SystemTime::now() since UNIX_EPOCH in ms: the clock, which is past the epoch
UnixMs == now + 1

\* the order of (u64, u64): `stream.id >= new_stream.id` is ~IdLess(..)
IdLess(a, b) == a[1] < b[1] \/ (a[1] = b[1] /\ a[2] < b[2])

\* a faulty check, which compares the new id with no stored entry
IdAccepted_Always(streams, id) == TRUE

\* XAdd::apply, the loop over streams.iter(): no stored id is >= the new one
IdAccepted(streams, id) == \A i \in DOMAIN streams : IdLess(streams[i].id, id)

\* format!("{}-{}", ms, seq)
FormatId(id) == FormatU64(id[1]) \o <<"-">> \o FormatU64(id[2])

\* XAdd::apply, first half: the id is validated and the stream is read
XAddGet(c) ==
    /\ pc[c] = "apply"
    /\ CurCmd(c).op = "XADD"
    /\ IF is_stream_id_valid(CurCmd(c).val)
       THEN /\ tmp' = [tmp EXCEPT ![c] = DbGet(CurCmd(c).key)]
            /\ pc' = [pc EXCEPT ![c] = "xadd_set"]
            /\ UNCHANGED <<responses, execIdx, out>>
       ELSE /\ tmp' = tmp
            /\ Deliver(c, Error("ERR The ID specified in XADD must be greater than 0-0"))
    /\ UNCHANGED <<keyspaceVars, replVars, ncmds, nodeVars, snap, cur, is_multi, transaction,
                   connVars, link, waitVars>>

\* XAdd::apply, second half: the id is allocated and compared, the entry is
\* pushed on the vector that was read and the vector is stored
XAddSet(c) ==
    /\ pc[c] = "xadd_set"
    /\ tmp' = [tmp EXCEPT ![c] = None]
    /\ LET streams == IF IsStream(tmp[c]) THEN tmp[c][2] ELSE <<>>
           next == next_sequence_id(CurCmd(c).val, streams)
           id == get_stream_id(CurCmd(c).val, next, UnixMs)
       IN IF next < 0 \/ id[1] < 0 \/ id[2] < 0
          THEN /\ pc' = [pc EXCEPT ![c] = "panicked"]
               /\ UNCHANGED <<keyspaceVars, responses, execIdx, out>>
          ELSE IF ~IdAccepted(streams, id)
          THEN /\ UNCHANGED keyspaceVars
               /\ Deliver(c, Error("ERR The ID specified in XADD is equal or smaller than the target stream top item"))
          ELSE /\ db' = DbSet(CurCmd(c).key,
                              Stream(Append(streams, [id |-> id, pairs |-> CurCmd(c).n])))
               /\ expires_at' = SetExpiry(CurCmd(c).key, 0)
               /\ expirations' = SetIndex(CurCmd(c).key, 0)
               /\ applied' = Append(applied, Write(CurCmd(c)))
               /\ Deliver(c, Bulk(FormatId(id)))
    /\ UNCHANGED <<replVars, ncmds, nodeVars, snap, cur, is_multi, transaction, connVars, link,
                   waitVars>>

\* the clock of the stream scenarios
MaxStreamNow == 1

StreamClock == now < MaxStreamNow /\ Clock

\* two clients add entries to the stream x under every form of id while the
\* clock advances
MaxStreamCmds == 3

StreamIds == {<<"1", "-", "1">>, <<"1", "-", "*">>, <<"2", "-", "0">>, <<"*">>}

StreamInputs(id) == {XAddCmd(id, "x", sid) : sid \in StreamIds}

NextStream ==
    \/ \E c \in Clients : \E cmd \in StreamInputs(ncmds + 1) :
          ncmds < MaxStreamCmds /\ Recv(c, cmd)
    \/ \E c \in Clients : XAddGet(c)
    \/ \E c \in Clients : XAddSet(c)
    \/ PurgerRun
    \/ StreamClock

SpecStream == Init /\ [][NextStream]_vars

\* two clients store a text in x, increment x and add entries to x
MaxRefuseCmds == 4

RefuseInputs(id) ==
    {SetCmd(id, "x", <<"a">>), IncrCmd(id, "x"),
     XAddCmd(id, "x", <<"1", "-", "1">>), XAddCmd(id, "x", <<"1", "-", "*">>)}

NextRefuse ==
    \/ \E c \in Clients : \E cmd \in RefuseInputs(ncmds + 1) :
          ncmds < MaxRefuseCmds /\ Recv(c, cmd)
    \/ \E c \in Clients : FanOut(c)
    \/ \E c \in Clients : BumpMaster(c)
    \/ \E c \in Clients : BumpReplicas(c)
    \/ \E c \in Clients : ApplySet(c)
    \/ \E c \in Clients : IncrGet(c)
    \/ \E c \in Clients : IncrSet(c)
    \/ \E c \in Clients : XAddGet(c)
    \/ \E c \in Clients : XAddSet(c)

SpecRefuse == Init /\ [][NextRefuse]_vars

\* the request of client c is refused by Incr::apply or by XAdd::apply:
\* the value read is a text that is no integer, or a stream, or the id of
\* XADD is not greater than a stored id
Refused(c) ==
    \/ /\ pc[c] = "incr_set"
       /\ pc'[c] # "incr_set"
       /\ tmp[c] # None
       /\ (IsStream(tmp[c]) \/ ParseU64(tmp[c]) < 0)
    \/ /\ pc[c] = "xadd_set"
       /\ pc'[c] # "xadd_set"
       /\ LET streams == IF IsStream(tmp[c]) THEN tmp[c][2] ELSE <<>>
              id == get_stream_id(cur[c].val, next_sequence_id(cur[c].val, streams), UnixMs)
          IN ~IdAccepted(streams, id)

\* C22: INCR on a text that is no integer, INCR on a stream and XADD with an
\* id not greater than the last one each write an error reply, leave the
\* keyspace as it was and leave the connection reading further commands
C22_RefusedWithError ==
    [][\A c \in Clients :
          Refused(c) => /\ Len(out'[c]) = Len(out[c]) + 1
                        /\ Last(out'[c]).r[1] = "error"
                        /\ db' = db
                        /\ pc'[c] = "read"]_vars

\* the entries of the stream stored at k (none if k holds no stream)
Entries(k) == IF IsStream(db[k]) THEN db[k][2] ELSE <<>>

\* C23: after any sequence of XADD on a key, from one or from several
\* connections, the ids of the stored stream increase strictly in (ms, seq)
\* order along the vector
C23_IdsIncrease ==
    \A k \in StoreKeys : \A i, j \in DOMAIN Entries(k) :
        i < j => IdLess(Entries(k)[i].id, Entries(k)[j].id)

\* a stream of three entries that two connections added
C23_Witness ==
    /\ Len(Entries("x")) = 3
    /\ \E i, j \in DOMAIN Entries("x") :
          snap[Entries("x")[i].pairs].owner # snap[Entries("x")[j].pairs].owner

\* two clients add entries to x and leave the sequence number automatic
MaxAutoCmds == 3

AutoIds == {<<"1", "-", "*">>, <<"0", "-", "*">>, <<"*">>, <<"1">>}

AutoInputs(id) == {XAddCmd(id, "x", sid) : sid \in AutoIds}

NextAuto ==
    \/ \E c \in Clients : \E cmd \in AutoInputs(ncmds + 1) :
          ncmds < MaxAutoCmds /\ Recv(c, cmd)
    \/ \E c \in Clients : XAddGet(c)
    \/ \E c \in Clients : XAddSet(c)

SpecAuto == Init /\ [][NextAuto]_vars

\* the ms that an id with an automatic sequence number names
AutoMs(sid) == IF Split(sid)[1] = <<"*">> THEN UnixMs ELSE ParseU64(Split(sid)[1])

\* the sequence number that follows the entries of streams at ms
SeqAfter(streams, ms) ==
    IF LastAt(streams, ms) > 0 THEN streams[LastAt(streams, ms)].id[2] + 1
    ELSE IF ms = 0 THEN 1 ELSE 0

\* C24: XADD with an automatic sequence number (ms-*, *, ms alone) is
\* accepted, and the sequence allocated is 0 when the stream has no entry
\* with that ms (1 when ms is 0), else the last sequence at that ms plus 1;
\* stated for an ms that is not below a stored one
C24_AutoSequence ==
    [][\A c \in Clients :
          LET streams == IF IsStream(tmp[c]) THEN tmp[c][2] ELSE <<>>
              ms == AutoMs(cur[c].val)
          IN /\ (pc[c] = "apply" /\ pc'[c] # "apply" /\ cur[c].op = "XADD")
                => pc'[c] = "xadd_set"
             /\ (/\ pc[c] = "xadd_set"
                 /\ pc'[c] # "xadd_set"
                 /\ \A i \in DOMAIN streams : streams[i].id[1] <= ms)
                => /\ Len(out'[c]) = Len(out[c]) + 1
                   /\ Last(out'[c]).r = Bulk(FormatId(<<ms, SeqAfter(streams, ms)>>))
                   /\ db'[cur[c].key] =
                         Stream(Append(streams, [id |-> <<ms, SeqAfter(streams, ms)>>,
                                                 pairs |-> cur[c].n]))]_vars

\* ---------------------------------------------------------------- XRANGE
\* the order of (u64, u64), equality included
IdLeq(a, b) == a = b \/ IdLess(a, b)

\* XRange::apply, the three filters by mode
InRange(parts, id) ==
    CASE parts.mode = "none" -> IdLeq(parts.start, id) /\ IdLeq(id, parts.end)
      [] parts.mode = "-" -> IdLeq(id, parts.end)
      [] parts.mode = "+" -> IdLeq(parts.start, id)

\* XRange::apply, the array built for one entry: its id and its pairs
EntryResp(entry) ==
    Array(<<Bulk(FormatId(entry.id)), Array(<<Bulk(<<"f">>), Bulk(FormatU64(entry.pairs))>>)>>)

RECURSIVE MapEntries(_)
MapEntries(entries) ==
    IF entries = <<>> THEN <<>>
    ELSE <<EntryResp(Head(entries))>> \o MapEntries(Tail(entries))

\* XRange::apply
ApplyXRange(c) ==
    /\ pc[c] = "apply"
    /\ CurCmd(c).op = "XRANGE"
    /\ LET streams == IF IsStream(DbGet(CurCmd(c).key)) THEN DbGet(CurCmd(c).key)[2] ELSE <<>>
           parts == XRangeParts(CurCmd(c).val[1], CurCmd(c).val[2])
       IN Deliver(c, Array(MapEntries(SelectSeq(streams, LAMBDA entry : InRange(parts, entry.id)))))
    /\ UNCHANGED <<keyspaceVars, replVars, ncmds, nodeVars, snap, cur, is_multi, transaction, tmp,
                   connVars, link, waitVars>>

\* one client adds entries to x and reads ranges of x under every
\* combination of bounds
MaxRangeCmds == 4

RangeBounds ==
    {<<<<"1", "-", "1">>, <<"2", "-", "0">>>>, <<<<"-">>, <<"1", "-", "1">>>>,
     <<<<"1", "-", "1">>, <<"+">>>>, <<<<"-">>, <<"+">>>>, <<<<"2">>, <<"2">>>>}

RangeClients == {"c1"}

RangeInputs(id) ==
    {XAddCmd(id, "x", sid) : sid \in {<<"1", "-", "0">>, <<"1", "-", "1">>, <<"2", "-", "*">>}}
    \cup {XRangeCmd(id, "x", b[1], b[2]) : b \in RangeBounds}

NextRange ==
    \/ \E c \in RangeClients : \E cmd \in RangeInputs(ncmds + 1) :
          ncmds < MaxRangeCmds /\ Recv(c, cmd)
    \/ \E c \in Clients : XAddGet(c)
    \/ \E c \in Clients : XAddSet(c)
    \/ \E c \in Clients : ApplyXRange(c)

SpecRange == Init /\ [][NextRange]_vars

\* the id that a bound of XRANGE names, when it is neither - nor +
BoundId(text) == <<ParseU64(Split(text)[1]),
                   IF Len(Split(text)) >= 2 THEN ParseU64(Split(text)[2]) ELSE 0>>

\* the entries of the stream between start and end inclusive, in the order
\* of the stream; - is no lower bound and + no upper bound
Between(entries, start, end) ==
    SelectSeq(entries, LAMBDA entry :
        /\ (start = <<"-">> \/ IdLeq(BoundId(start), entry.id))
        /\ (end = <<"+">> \/ IdLeq(entry.id, BoundId(end))))

\* C25: XRANGE key start end replies with exactly the entries whose id lies
\* between start and end inclusive, in ascending order, for every
\* combination of bounds, - and + together included
C25_RangeReply ==
    [][\A c \in Clients :
          /\ (Receives(c) /\ cur'[c].op = "XRANGE") => pc'[c] = "apply"
          /\ (pc[c] = "apply" /\ cur[c].op = "XRANGE" /\ pc'[c] # "apply")
             => /\ Len(out'[c]) = Len(out[c]) + 1
                /\ Last(out'[c]).r =
                      Array(MapEntries(Between(Entries(cur[c].key), cur[c].val[1],
                                               cur[c].val[2])))]_vars

\* ----------------------------------------------------------------- XREAD
\* XRead::run_command for the one stream of the command: the entries whose
\* id is greater than the id of the filter, under the key; nothing when the
\* key holds no stream or no entry matches
run_command(cmd) ==
    LET streams == IF IsStream(DbGet(cmd.key)) THEN DbGet(cmd.key)[2] ELSE <<>>
        results == SelectSeq(streams, LAMBDA entry : IdLess(get_range_value(cmd.val), entry.id))
    IN IF results = <<>> THEN <<>>
       ELSE <<Array(<<Bulk(<<cmd.key>>), Array(MapEntries(results))>>)>>

\* XRead::apply, after run_command: Null unless a stream has results
XReadResp(xreads) == IF xreads = <<>> THEN Null ELSE Array(xreads)

\* XRead::apply: without BLOCK the streams are read once; with BLOCK 0 they
\* are read until one has results, with a sleep of 100 ms after each empty
\* reading; with BLOCK t the sleep of t ms comes first
XReadRun(c) ==
    /\ pc[c] = "apply"
    /\ CurCmd(c).op = "XREAD"
    /\ IF CurCmd(c).n = 0
       THEN Deliver(c, XReadResp(run_command(CurCmd(c))))
       ELSE IF CurCmd(c).t > 0
       THEN /\ pc' = [pc EXCEPT ![c] = "xread_timer"]
            /\ UNCHANGED <<responses, execIdx, out>>
       ELSE IF run_command(CurCmd(c)) = <<>>
       THEN /\ pc' = [pc EXCEPT ![c] = "xread_sleep"]
            /\ UNCHANGED <<responses, execIdx, out>>
       ELSE Deliver(c, XReadResp(run_command(CurCmd(c))))
    /\ UNCHANGED <<keyspaceVars, replVars, ncmds, nodeVars, snap, cur, is_multi, transaction, tmp,
                   connVars, link, waitVars>>

\* XRead::apply, BLOCK 0: the sleep of 100 ms is over, the loop reads again
XReadWake(c) ==
    /\ pc[c] = "xread_sleep"
    /\ pc' = [pc EXCEPT ![c] = "apply"]
    /\ UNCHANGED <<keyspaceVars, replVars, ncmds, nodeVars, snap, cur, txnVars, tmp, out,
                   connVars, link, waitVars>>

\* XRead::apply, BLOCK t: the sleep of t ms is over, the streams are read
XReadTimer(c) ==
    /\ pc[c] = "xread_timer"
    /\ Deliver(c, XReadResp(run_command(CurCmd(c))))
    /\ UNCHANGED <<keyspaceVars, replVars, ncmds, nodeVars, snap, cur, is_multi, transaction, tmp,
                   connVars, link, waitVars>>

\* two clients read the stream x with and without BLOCK, add entries to x
\* and store a text in x
MaxReadCmds == 3

ReadInputs(id) ==
    {XReadCmd(id, "x", <<"0", "-", "0">>, 1, 0), XReadCmd(id, "x", <<"1", "-", "1">>, 0, 0),
     XReadCmd(id, "x", <<"0", "-", "0">>, 1, 1),
     XAddCmd(id, "x", <<"1", "-", "1">>), SetCmd(id, "x", <<"a">>)}

NextRead ==
    \/ \E c \in Clients : \E cmd \in ReadInputs(ncmds + 1) :
          ncmds < MaxReadCmds /\ Recv(c, cmd)
    \/ \E c \in Clients : FanOut(c)
    \/ \E c \in Clients : BumpMaster(c)
    \/ \E c \in Clients : BumpReplicas(c)
    \/ \E c \in Clients : ApplySet(c)
    \/ \E c \in Clients : XAddGet(c)
    \/ \E c \in Clients : XAddSet(c)
    \/ \E c \in Clients : XReadRun(c)
    \/ \E c \in Clients : XReadWake(c)
    \/ \E c \in Clients : XReadTimer(c)

SpecRead == Init /\ [][NextRead]_vars

\* every handler task is scheduled again and every sleep ends
FairRead ==
    /\ WF_vars(\E c \in Clients : FanOut(c))
    /\ WF_vars(\E c \in Clients : BumpMaster(c))
    /\ WF_vars(\E c \in Clients : BumpReplicas(c))
    /\ WF_vars(\E c \in Clients : ApplySet(c))
    /\ WF_vars(\E c \in Clients : XAddGet(c))
    /\ WF_vars(\E c \in Clients : XAddSet(c))
    /\ WF_vars(\E c \in Clients : XReadRun(c))
    /\ WF_vars(\E c \in Clients : XReadWake(c))
    /\ WF_vars(\E c \in Clients : XReadTimer(c))

FairSpecRead == SpecRead /\ FairRead

\* client c waits for the answer to its request k, an XREAD BLOCK 0
Blocked(c, k) ==
    /\ pc[c] \in {"apply", "xread_sleep"}
    /\ cur[c].id = k
    /\ cur[c].op = "XREAD"
    /\ cur[c].n = 1
    /\ cur[c].t = 0

\* the ids of the entries in a reply of XREAD for one stream
ReplyIds(r) ==
    IF r[1] # "array" THEN {}
    ELSE {r[2][1][2][2][2][i][2][1] : i \in DOMAIN r[2][1][2][2][2]}

\* request k of client c was answered with the entry id
RepliedWith(c, k, id) ==
    \E i \in DOMAIN out[c] : out[c][i].id = k /\ Bulk(FormatId(id)) \in ReplyIds(out[c][i].r)

\* the stream x holds the entry id, which a connection other than c added
\* by a request that arrived after request k
AddedSince(c, k, id) ==
    \E i \in DOMAIN Entries("x") :
        /\ Entries("x")[i].id = id
        /\ Entries("x")[i].pairs > k
        /\ snap[Entries("x")[i].pairs].owner # c

\* C26: XREAD BLOCK 0 never replies Null and replies only when the stream
\* has an entry matching the filter; and once an XADD of another connection
\* has added such an entry after the XREAD started, the XREAD eventually
\* replies with it
C26_BlockUntilEntry ==
    /\ [][\A c \in Clients : \A k \in 1..MaxReadCmds :
             (Blocked(c, k) /\ pc'[c] = "read")
             => /\ Last(out'[c]).r # Null
                /\ \E i \in DOMAIN Entries(cur[c].key) :
                      IdLess(get_range_value(cur[c].val), Entries(cur[c].key)[i].id)]_vars
    /\ \A c \in Clients : \A k \in 1..MaxReadCmds :
          (Blocked(c, k) /\ AddedSince(c, k, <<1, 1>>)) ~> RepliedWith(c, k, <<1, 1>>)

\* ------------------------------------------------------------ RESP codec
\* bytes are texts of one character
CRLF == <<"\r", "\n">>

\* RESP::File(Bytes)
File(b) == <<"file", b>>

\* Connection::write_decimal, for a val that fits
write_decimal(val) == FormatU64(val) \o CRLF

\* Connection::write_frame and Connection::write_value: both write an array
\* as * and its length and then each element, and any other value alike
RECURSIVE write_value(_)
RECURSIVE WriteAll(_)
WriteAll(list) ==
    IF list = <<>> THEN <<>> ELSE write_value(Head(list)) \o WriteAll(Tail(list))

write_value(resp) ==
    CASE resp[1] = "null" -> <<"$", "-", "1">> \o CRLF
      [] resp[1] = "error" -> <<"-">> \o resp[2] \o CRLF
      [] resp[1] = "simple" -> <<"+">> \o resp[2] \o CRLF
      [] resp[1] = "int" -> <<":">> \o write_decimal(resp[2])
      [] resp[1] = "bulk" -> <<"$">> \o write_decimal(Len(resp[2])) \o resp[2] \o CRLF
      [] resp[1] = "file" -> <<"$">> \o write_decimal(Len(resp[2])) \o resp[2]
      [] resp[1] = "array" -> <<"*">> \o write_decimal(Len(resp[2])) \o WriteAll(resp[2])

write_frame(resp) == write_value(resp)

\* outcomes of the functions over the cursor: "ok", RESPError::Incomplete,
\* RESPError::Other, and a panic (unwrap, Buf::advance past the end, a slice
\* past the end)
Res(r, v, p) == [res |-> r, val |-> v, pos |-> p]

\* get_line: the bytes from pos to the first CR LF, the cursor behind it
LineEnds(buf, pos) ==
    {j \in (pos + 1)..(Len(buf) - 1) : buf[j] = "\r" /\ buf[j + 1] = "\n"}

get_line(buf, pos) ==
    IF LineEnds(buf, pos) = {} THEN Res("incomplete", <<>>, pos)
    ELSE LET j == CHOOSE j \in LineEnds(buf, pos) : \A k \in LineEnds(buf, pos) : j <= k
         IN Res("ok", SubSeq(buf, pos + 1, j - 1), j + 1)

\* get_decimal: `string.parse().unwrap()` panics on a line that is no number
get_decimal(buf, pos) ==
    LET line == get_line(buf, pos) IN
    IF line.res # "ok" THEN line
    ELSE IF ParseU64(line.val) < 0 THEN Res("panic", 0, line.pos)
    ELSE Res("ok", ParseU64(line.val), line.pos)

\* skip: Buf::advance panics when fewer than n bytes remain
skip(buf, pos, n) ==
    IF pos + n > Len(buf) THEN Res("panic", 0, pos) ELSE Res("ok", 0, pos + n)

\* the test for CR LF behind the data of a bulk string: the slice
\* [pos..pos + 2] is taken whenever a byte remains, and panics when only one
\* does
clrf(buf, pos) ==
    IF pos >= Len(buf) THEN Res("ok", FALSE, pos)
    ELSE IF pos + 2 > Len(buf) THEN Res("panic", FALSE, pos)
    ELSE Res("ok", SubSeq(buf, pos + 1, pos + 2) = CRLF, pos)

\* RESP::check
RECURSIVE check(_, _)
RECURSIVE CheckEach(_, _, _)
CheckEach(buf, pos, n) ==
    IF n = 0 THEN Res("ok", 0, pos)
    ELSE LET one == check(buf, pos) IN
         IF one.res # "ok" THEN one ELSE CheckEach(buf, one.pos, n - 1)

check(buf, pos) ==
    IF pos >= Len(buf) THEN Res("incomplete", 0, pos)
    ELSE CASE buf[pos + 1] \in {"+", "-"} -> get_line(buf, pos + 1)
           [] buf[pos + 1] = "*" ->
                 LET len == get_decimal(buf, pos + 1) IN
                 IF len.res # "ok" THEN len ELSE CheckEach(buf, len.pos, len.val)
           [] buf[pos + 1] = "$" ->
                 IF pos + 1 >= Len(buf) THEN Res("incomplete", 0, pos + 1)
                 ELSE IF buf[pos + 2] = "-" THEN skip(buf, pos + 1, 4)
                 ELSE LET len == get_decimal(buf, pos + 1) IN
                      IF len.res # "ok" THEN len
                      ELSE LET data == skip(buf, len.pos, len.val) IN
                           IF data.res # "ok" THEN data
                           ELSE LET end == clrf(buf, data.pos) IN
                                IF end.res # "ok" THEN end
                                ELSE IF end.val THEN skip(buf, data.pos, 2)
                                ELSE Res("ok", 0, data.pos)
           [] buf[pos + 1] = ":" -> get_decimal(buf, pos + 1)
           [] buf[pos + 1] = "_" -> Res("ok", 0, pos + 1)
           [] OTHER -> Res("invalid", 0, pos + 1)

\* RESP::parse_resp
RECURSIVE parse_resp(_, _)
RECURSIVE ParseEach(_, _, _, _)
ParseEach(buf, pos, n, acc) ==
    IF n = 0 THEN Res("ok", Array(acc), pos)
    ELSE LET one == parse_resp(buf, pos) IN
         IF one.res # "ok" THEN one ELSE ParseEach(buf, one.pos, n - 1, Append(acc, one.val))

parse_resp(buf, pos) ==
    IF pos >= Len(buf) THEN Res("incomplete", 0, pos)
    ELSE CASE buf[pos + 1] = "+" ->
                 LET line == get_line(buf, pos + 1) IN
                 IF line.res # "ok" THEN line ELSE Res("ok", Simple(line.val), line.pos)
           [] buf[pos + 1] = "-" ->
                 LET line == get_line(buf, pos + 1) IN
                 IF line.res # "ok" THEN line ELSE Res("ok", Error(line.val), line.pos)
           [] buf[pos + 1] = "*" ->
                 LET len == get_decimal(buf, pos + 1) IN
                 IF len.res # "ok" THEN len ELSE ParseEach(buf, len.pos, len.val, <<>>)
           [] buf[pos + 1] = "$" ->
                 IF pos + 1 >= Len(buf) THEN Res("incomplete", 0, pos + 1)
                 ELSE IF buf[pos + 2] = "-"
                 THEN LET line == get_line(buf, pos + 1) IN
                      IF line.res # "ok" THEN line
                      ELSE IF line.val # <<"-", "1">> THEN Res("invalid", 0, line.pos)
                      ELSE Res("ok", Null, line.pos)
                 ELSE LET len == get_decimal(buf, pos + 1) IN
                      IF len.res # "ok" THEN len
                      ELSE IF Len(buf) - len.pos < len.val THEN Res("incomplete", 0, len.pos)
                      ELSE LET data == SubSeq(buf, len.pos + 1, len.pos + len.val)
                               end == clrf(buf, len.pos + len.val)
                           IN IF end.res # "ok" THEN end
                              ELSE IF end.val THEN Res("ok", Bulk(data), len.pos + len.val + 2)
                              ELSE Res("ok", File(data), len.pos + len.val)
           [] buf[pos + 1] = ":" ->
                 LET int == get_decimal(buf, pos + 1) IN
                 IF int.res # "ok" THEN int ELSE Res("ok", Integer(int.val), int.pos)
           [] buf[pos + 1] = "_" -> Res("ok", Null, pos + 1)
           [] OTHER -> Res("invalid", 0, pos + 1)

\* a panic of the writer, and what the reader made of the bytes it has
Panicked == <<"panic">>

ReadOf(buf) == <<"read", check(buf, 0), parse_resp(buf, 0)>>

\* the bytes one write_frame(resp) hands to the TcpStream, which is not
\* buffered: all of them, or those written before a write_decimal panics
RECURSIVE written(_)
RECURSIVE WrittenEach(_)
WrittenEach(list) ==
    IF list = <<>> THEN <<>>
    ELSE IF Encodes(Head(list)) THEN write_value(Head(list)) \o WrittenEach(Tail(list))
    ELSE written(Head(list))

written(resp) ==
    CASE resp[1] = "int" /\ ~Fits(resp[2]) -> <<":">>
      [] resp[1] \in {"bulk", "file"} /\ ~Fits(Len(resp[2])) -> <<"$">>
      [] resp[1] = "array" /\ ~Fits(Len(resp[2])) -> <<"*">>
      [] resp[1] = "array" /\ Fits(Len(resp[2])) ->
            <<"*">> \o write_decimal(Len(resp[2])) \o WrittenEach(resp[2])
      [] OTHER -> write_value(resp)

\* Connection::write_frame(v): the bytes reach the socket, up to the place
\* where a write_decimal panics
WriteFrame(v) ==
    /\ frame = None
    /\ frame' = v
    /\ seen' = 0
    /\ buffer' = written(v)
    /\ result' = IF Encodes(v) THEN None ELSE Panicked
    /\ UNCHANGED <<keyspaceVars, replVars, ncmds, state_repl_offset, rout, now, purger, role,
                   sideVars, stopVars, snap, pc, cur, txnVars, tmp, out, connVars, link, waitVars>>

\* the 88 bytes of EMPTY_RDB_FILE_, none of which starts a CR LF
RdbLen == 88

EMPTY_RDB_FILE_ == [i \in 1..RdbLen |-> "b"]

\* State.replid: the 40 characters of gen_rand_string(40)
ReplIdLen == 40

replid == [i \in 1..ReplIdLen |-> "r"]

\* the request PSYNC ? -1
PSyncReq == Array(<<Bulk(<<"P", "S", "Y", "N", "C">>), Bulk(<<"?">>), Bulk(<<"-", "1">>)>>)

FullResync == <<"F", "U", "L", "L", "R", "E", "S", "Y", "N", "C">>

\* PSync::apply: format!("+FULLRESYNC {} 0", replid) is written as a simple
\* string and the snapshot as a File
PSyncApply ==
    /\ frame = None
    /\ frame' = PSyncReq
    /\ seen' = 0
    /\ result' = None
    /\ buffer' = write_frame(Simple(<<"+">> \o FullResync \o <<" ">> \o replid \o <<" ", "0">>))
                 \o write_frame(File(EMPTY_RDB_FILE_))
    /\ UNCHANGED <<keyspaceVars, replVars, ncmds, state_repl_offset, rout, now, purger, role,
                   sideVars, stopVars, snap, pc, cur, txnVars, tmp, out, connVars, link, waitVars>>

\* Connection::read_resp: read_buf has brought the first n bytes into
\* Connection.buffer, and Connection::parse_resp runs over them
ReadBuf(n) ==
    /\ frame # None
    /\ result # Panicked
    /\ n \in seen..Len(buffer)
    /\ seen' = n
    /\ result' = ReadOf(SubSeq(buffer, 1, n))
    /\ UNCHANGED <<keyspaceVars, replVars, ncmds, state_repl_offset, rout, now, purger, role,
                   sideVars, stopVars, snap, pc, cur, txnVars, tmp, out, connVars, link, waitVars, frame,
                   buffer>>

\* the values one write_frame is given: every variant but File, nested
\* arrays, empty texts, and numbers of one, two and three digits
MaxDigits == 3

Numbers == {0, 7, 42} \cup {10 ^ (MaxDigits - 1)}

Texts == {<<>>, <<"O", "K">>, <<"-", "1">>}

Scalars ==
    {Null} \cup {Simple(s) : s \in Texts} \cup {Error(s) : s \in Texts}
    \cup {Integer(i) : i \in Numbers} \cup {Bulk(s) : s \in Texts}

Frames ==
    Scalars
    \cup {Array(<<>>), Array(<<Bulk(<<"a">>), Integer(7)>>), Array(<<Null, Simple(<<"O", "K">>)>>),
          Array(<<Array(<<Bulk(<<"h", "i">>)>>), Array(<<>>), Error(<<"E">>)>>)}

NextCodec ==
    \/ \E v \in Frames : WriteFrame(v)
    \/ PSyncApply
    \/ \E n \in 0..(RdbLen + ReplIdLen + 32) : ReadBuf(n)

SpecCodec == Init /\ [][NextCodec]_vars

\* C28: for every value v built from Simple, Error, Integer, Bulk, Null and
\* nested Array, the encoder writes bytes for v, and parse_resp over exactly
\* those bytes yields v and consumes all of them
C28_RoundTrip ==
    frame \in Frames
    => /\ result # Panicked
       /\ (result[1] = "read" /\ seen = Len(buffer))
          => result[3] = Res("ok", frame, Len(buffer))

\* C29: for every strict prefix of the encoding of a frame, check reports
\* Incomplete: it neither succeeds, nor reports an invalid frame, nor panics
C29_PrefixIncomplete ==
    (frame \in Frames /\ result[1] = "read" /\ seen < Len(buffer))
    => result[2].res = "incomplete"

\* C30: in answer to PSYNC the primary writes +FULLRESYNC <replid> 0 CRLF,
\* then $88 CRLF and the 88 bytes of the empty RDB without CRLF behind them
C30_FullResyncBytes ==
    frame = PSyncReq
    => buffer = <<"+">> \o FullResync \o <<" ">> \o replid \o <<" ", "0">> \o CRLF
                \o <<"$", "8", "8">> \o CRLF \o EMPTY_RDB_FILE_

\* ------------------------------------------------------ INCR and its reply
\* two clients store decimal texts of one and two digits in x and increment x
MaxCountCmds == 3

CountInputs(id) ==
    {SetCmd(id, "x", <<"7">>), SetCmd(id, "x", <<"9", "9">>), IncrCmd(id, "x")}

NextCount ==
    \/ \E c \in Clients : \E cmd \in CountInputs(ncmds + 1) :
          ncmds < MaxCountCmds /\ Recv(c, cmd)
    \/ \E c \in Clients : FanOut(c)
    \/ \E c \in Clients : BumpMaster(c)
    \/ \E c \in Clients : BumpReplicas(c)
    \/ \E c \in Clients : ApplySet(c)
    \/ \E c \in Clients : IncrGet(c)
    \/ \E c \in Clients : IncrSet(c)

SpecCount == Init /\ [][NextCount]_vars

\* C27: INCR on an absent key stores 1 and replies :1; INCR on the decimal
\* text of n stores n+1 and the integer reply n+1 reaches the client
C27_IncrReply ==
    [][\A c \in Clients :
          (pc[c] = "incr_set" /\ pc'[c] # "incr_set" /\ (tmp[c] = None \/ ParseU64(tmp[c]) >= 0))
          => LET next == IF tmp[c] = None THEN 1 ELSE ParseU64(tmp[c]) + 1 IN
             /\ db'[cur[c].key] = FormatU64(next)
             /\ Len(out'[c]) = Len(out[c]) + 1
             /\ Last(out'[c]).r = Integer(next)]_vars

\* ---------------------------------------------------------------------
\* util::gen_rand_string and the replication id of a primary
\* ---------------------------------------------------------------------

\* how many leading characters of one string take every value of RandNumbers
MaxVaried == 3

\* values of gen_rand_number: a u32 taken from a hash of the clock (n % 27 + 96
\* is at most 122, so the u32 addition never wraps)
RandNumbers == {0, 26, 27, 2147483647}

\* the lengths asked for: those of the unit test, of init_repl_state, and short ones
GenLens == {0, 1, 2, 20, ReplIdLen}

\* std::char::from_u32: a scalar value, or none for a surrogate or a value
\* above 0x10FFFF
from_u32(n) ==
    IF n > 1114111 \/ (n >= 55296 /\ n <= 57343) THEN <<"none">> ELSE <<"some", n>>

\* char::len_utf8
len_utf8(ch) ==
    IF ch < 128 THEN 1 ELSE IF ch < 2048 THEN 2 ELSE IF ch < 65536 THEN 3 ELSE 4

RECURSIVE StrLen(_)
\* String::len: the bytes of the string
StrLen(str) ==
    IF str = <<>> THEN 0 ELSE len_utf8(Head(str)) + StrLen(Tail(str))

\* the states of a call: running, panicked in unwrap, returned str
Running == [st |-> "run", str |-> <<>>]
Unwrapped == [st |-> "panic", str |-> <<>>]
StringOf(str) == [st |-> "ret", str |-> str]

LoopDone_Early(i, len) == i + 1 >= len

\* for _ in 0..len: the range is exhausted after i iterations
LoopDone(i, len) == i >= len

\* gen_rand_string(len): let mut rnd_str = String::new()
GenCall(len) ==
    /\ gen_len = -1
    /\ gen_len' = len
    /\ rnd_str' = <<>>
    /\ gen_ret' = Running
    /\ UNCHANGED <<keyspaceVars, replVars, ncmds, state_repl_offset, rout, now, purger, role,
                   codecVars, feedVars, hs, stopVars, snap, pc, cur, txnVars, tmp, out, connVars, link,
                   waitVars>>

\* Listener::init_repl_state: gen_rand_string(40), whose value set_repl_id stores
InitReplState == GenCall(ReplIdLen)

\* one iteration: from_u32(gen_rand_number() % 27 + 96).unwrap() is pushed
GenPush(n) ==
    /\ gen_len >= 0
    /\ gen_ret = Running
    /\ ~LoopDone(Len(rnd_str), gen_len)
    /\ Len(rnd_str) >= MaxVaried => n = 0
    /\ LET rnd_char == from_u32((n % 27) + 96)
       IN  IF rnd_char = <<"none">>
           THEN gen_ret' = Unwrapped /\ rnd_str' = rnd_str
           ELSE gen_ret' = gen_ret /\ rnd_str' = Append(rnd_str, rnd_char[2])
    /\ UNCHANGED <<keyspaceVars, replVars, ncmds, state_repl_offset, rout, now, purger, role,
                   codecVars, feedVars, hs, stopVars, snap, pc, cur, txnVars, tmp, out, connVars, link,
                   waitVars, gen_len>>

\* the loop is over: rnd_str is returned
GenReturn ==
    /\ gen_len >= 0
    /\ gen_ret = Running
    /\ LoopDone(Len(rnd_str), gen_len)
    /\ gen_ret' = StringOf(rnd_str)
    /\ UNCHANGED <<keyspaceVars, replVars, ncmds, state_repl_offset, rout, now, purger, role,
                   codecVars, feedVars, hs, stopVars, snap, pc, cur, txnVars, tmp, out, connVars, link,
                   waitVars, gen_len, rnd_str>>

NextGen ==
    \/ \E len \in GenLens : GenCall(len)
    \/ InitReplState
    \/ \E n \in RandNumbers : GenPush(n)
    \/ GenReturn

SpecGen == Init /\ [][NextGen]_vars

\* C31: a call of gen_rand_string(len) returns, without panicking, a string
\* of exactly len characters (and len bytes), so the replication id made by
\* init_repl_state has 40 characters
C31_ExactLength ==
    /\ gen_ret # Unwrapped
    /\ gen_ret.st = "ret" =>
          /\ Len(gen_ret.str) = gen_len
          /\ StrLen(gen_ret.str) = gen_len
          /\ \A i \in 1..Len(gen_ret.str) : gen_ret.str[i] \in 96..122

C31_Witness ==
    /\ gen_len = ReplIdLen
    /\ gen_ret.st = "ret"
    /\ Len(gen_ret.str) = 40
    /\ \E i \in 1..MaxVaried : gen_ret.str[i] # 96

\* C32: once a WAIT has been answered, the write lock of the replica set
\* that its collector task took is given back, so that the lock does not
\* stay held for a WAIT that is over
C32_LockReleasedAfterReply ==
    \A w \in 1..MaxWaitCmds :
        (w \in DOMAIN waits /\ waits[w].st = "answered" /\ lock = w) ~> (lock # w)

\* ---------------------------------------------------------------------
\* WAIT after earlier WAITs on one replica
\* ---------------------------------------------------------------------
MaxStaleCmds == 5

StaleInputs(id) ==
    {SetCmd(id, "x", <<"1">>), WaitCmd(id, 0, 0), WaitCmd(id, 1, 1)}

InitStale == Attached(<<"r1">>)

NextStale ==
    \/ \E c \in WaitClients : \E cmd \in StaleInputs(ncmds + 1) :
          ncmds < MaxStaleCmds /\ Recv(c, cmd)
    \/ \E c \in Clients : FanOut(c)
    \/ \E c \in Clients : BumpMaster(c)
    \/ \E c \in Clients : BumpReplicas(c)
    \/ \E c \in Clients : ApplySet(c)
    \/ \E c \in Clients : WaitStart(c)
    \/ \E w \in DOMAIN waits : WaitTimeout(w)
    \/ \E w \in DOMAIN waits : WaitCollected(w)
    \/ \E w \in DOMAIN colls : CollStart(w)
    \/ \E w \in DOMAIN colls : CollAcquire(w)
    \/ \E w \in DOMAIN colls : CollPoll(w)
    \/ Tick
    \/ \E r \in RConns : ReplicaStep(r)

SpecStale == InitStale /\ [][NextStale]_vars

\* replica connection r has read and applied every SET that was written to
\* it for a request older than the WAIT w
HasApplied(r, w) ==
    \A j \in DOMAIN link[r] :
        (link[r][j].op = "SET" /\ link[r][j].id < w) => j <= rread[r]

\* C33: when the collector of WAIT w counts a replica, that replica has
\* applied every write the primary propagated before w was received
C33_CountedOnlyIfApplied ==
    [][\A w \in DOMAIN colls : \A i \in colls'[w].skips \ colls[w].skips :
          HasApplied(replicas[i], w)]_vars

\* bytes of the commands that were written to the socket of replica r
WrittenBytes(r) == ROffsetAt(r, Len(link[r]) + 1)

\* no handler stands between the fan-out of a SET and the offset update
NoBumpPending == \A c \in Clients : pc[c] \notin {"bump", "bump_repl"}

\* C34: whenever no SET is between its fan-out and its offset update, the
\* repl_offset of every connection of the replica set is the number of bytes
\* written to that replica since it joined
C34_OffsetIsBytesWritten ==
    NoBumpPending => \A r \in Range(replicas) : repl_offset[r] = WrittenBytes(r)

\* ---------------------------------------------------------------------
\* the link to the primary, byte by byte: Connection::read_resp and
\* Handler::run_master on the replica node
\* ---------------------------------------------------------------------
MaxWireCmds == 3

\* the two commands a primary writes to a replica: a propagated SET x 1 and
\* the probe REPLCONF GETACK *
SetFrame == Array(<<Bulk(<<"S", "E", "T">>), Bulk(<<"x">>), Bulk(<<"1">>)>>)

GetAckFrame ==
    Array(<<Bulk(<<"R", "E", "P", "L", "C", "O", "N", "F">>),
            Bulk(<<"G", "E", "T", "A", "C", "K">>), Bulk(<<"*">>)>>)

WireFrames == {SetFrame, GetAckFrame}

\* str::to_lowercase, for the letters of the command names
LowerOf(ch) ==
    CASE ch = "S" -> "s" [] ch = "E" -> "e" [] ch = "T" -> "t" [] ch = "R" -> "r"
      [] ch = "P" -> "p" [] ch = "L" -> "l" [] ch = "C" -> "c" [] ch = "O" -> "o"
      [] ch = "N" -> "n" [] ch = "F" -> "f" [] ch = "G" -> "g" [] ch = "A" -> "a"
      [] ch = "K" -> "k" [] ch = "X" -> "x" [] OTHER -> ch

to_lowercase(text) == [i \in DOMAIN text |-> LowerOf(text[i])]

\* RespReader::next_string and next_byte succeed on Simple and Bulk only
IsText(resp) == resp[1] \in {"simple", "bulk"}

\* RespReader::next_int succeeds on Integer and on a text that is a number
IsInt(resp) == resp[1] = "int" \/ (IsText(resp) /\ ParseU64(resp[2]) >= 0)

Parsed(r, op, values) == [res |-> r, op |-> op, values |-> values]

\* Set::from_parts and RespReader::finish: key, value, then PX or EX with a
\* number; an element that is no text where the option stands is consumed
\* and ignored
SetParts(rest) ==
    IF Len(rest) < 2 \/ ~IsText(rest[1]) \/ ~IsText(rest[2]) THEN Parsed("err", "SET", <<>>)
    ELSE IF Len(rest) = 2 THEN Parsed("ok", "SET", <<rest[1][2], rest[2][2]>>)
    ELSE IF ~IsText(rest[3])
    THEN IF Len(rest) = 3 THEN Parsed("ok", "SET", <<rest[1][2], rest[2][2]>>)
         ELSE Parsed("err", "SET", <<>>)
    ELSE IF to_lowercase(rest[3][2]) \in {<<"p", "x">>, <<"e", "x">>}
            /\ Len(rest) = 4 /\ IsInt(rest[4])
    THEN Parsed("ok", "SET", <<rest[1][2], rest[2][2]>>)
    ELSE Parsed("err", "SET", <<>>)

\* the elements next_string returns before the first one that is no text
RECURSIVE TextPrefix(_)
TextPrefix(rest) ==
    IF rest = <<>> \/ ~IsText(Head(rest)) THEN <<>>
    ELSE <<Head(rest)[2]>> \o TextPrefix(Tail(rest))

\* Replconf::from_parts and RespReader::finish: the loop takes texts until
\* next_string fails, which consumes the element it failed on
ReplconfParts(rest) ==
    IF Len(rest) > Len(TextPrefix(rest)) + 1 THEN Parsed("err", "REPLCONF", <<>>)
    ELSE Parsed("ok", "REPLCONF", TextPrefix(rest))

\* Command::from_resp over a RESP value; only the names a primary writes
\* to this link are told apart
FromValue(resp) ==
    IF resp[1] # "array" \/ resp[2] = <<>> THEN Parsed("err", "", <<>>)
    ELSE IF ~IsText(resp[2][1]) THEN Parsed("err", "", <<>>)
    ELSE LET name == to_lowercase(resp[2][1][2]) IN
         CASE name = <<"s", "e", "t">> -> SetParts(Tail(resp[2]))
           [] name = <<"r", "e", "p", "l", "c", "o", "n", "f">> -> ReplconfParts(Tail(resp[2]))
           [] OTHER -> Parsed("panic", "", <<>>)

\* Replconf::apply: `getack` and `*` make it answer with the offset
IsGetAck(cmd) ==
    /\ cmd.op = "REPLCONF"
    /\ Len(cmd.values) >= 2
    /\ to_lowercase(cmd.values[1]) = <<"g", "e", "t", "a", "c", "k">>
    /\ to_lowercase(cmd.values[2]) = <<"*">>

AckOffset_After(off, size) == off + size

\* Replconf::apply: offset.unwrap().load(), read before run_master adds the
\* size of the command in hand
AckOffset(off, size) == off

\* the primary writes one command to the socket: write_frame and flush
PrimaryWrites(v) ==
    /\ Len(sent) < MaxWireCmds
    /\ sent' = Append(sent, v)
    /\ wire' = wire \o write_frame(v)
    /\ UNCHANGED <<keyspaceVars, replVars, ncmds, state_repl_offset, rout, now, purger, role,
                   codecVars, genVars, hs, stopVars, snap, pc, cur, txnVars, tmp, out, connVars,
                   link, waitVars, arrived, rbuf, m_pc, m_resp, m_offset, m_acks, delivered>>

\* Connection::read_resp, stream.read_buf: n of the bytes that are on the
\* socket are appended to the buffer
ReadSocket(n) ==
    /\ m_pc = "read"
    /\ n >= 1
    /\ arrived + n <= Len(wire)
    /\ rbuf' = rbuf \o SubSeq(wire, arrived + 1, arrived + n)
    /\ arrived' = arrived + n
    /\ m_pc' = "parse"
    /\ UNCHANGED <<keyspaceVars, replVars, ncmds, state_repl_offset, rout, now, purger, role,
                   codecVars, genVars, hs, stopVars, snap, pc, cur, txnVars, tmp, out, connVars,
                   link, waitVars, wire, sent, m_resp, m_offset, m_acks, delivered>>

\* Connection::parse_resp: RESP::check over the buffer, then RESP::parse_resp
\* from its start, then the buffer is advanced by the length check found
ParseBuffer ==
    /\ m_pc = "parse"
    /\ LET chk == check(rbuf, 0)
           val == parse_resp(rbuf, 0)
       IN  IF chk.res = "incomplete"
           THEN m_pc' = "read" /\ UNCHANGED <<rbuf, m_resp, delivered>>
           ELSE IF chk.res = "panic" \/ (chk.res = "ok" /\ val.res = "panic")
           THEN m_pc' = "panic" /\ UNCHANGED <<rbuf, m_resp, delivered>>
           ELSE IF chk.res # "ok" \/ val.res # "ok"
           THEN m_pc' = "err" /\ UNCHANGED <<rbuf, m_resp, delivered>>
           ELSE /\ m_pc' = "apply"
                /\ rbuf' = SubSeq(rbuf, chk.pos + 1, Len(rbuf))
                /\ m_resp' = [resp |-> val.val, size |-> chk.pos]
                /\ delivered' = Append(delivered, m_resp')
    /\ UNCHANGED <<keyspaceVars, replVars, ncmds, state_repl_offset, rout, now, purger, role,
                   codecVars, genVars, hs, stopVars, snap, pc, cur, txnVars, tmp, out, connVars,
                   link, waitVars, wire, sent, arrived, m_offset, m_acks>>

\* Handler::run_master: Command::from_resp(resp)? and command.apply; a
\* GETACK is answered with the offset, any other REPLCONF with +OK, and a
\* SET writes the keyspace of the replica node
MasterApply ==
    /\ m_pc = "apply"
    /\ LET cmd == FromValue(m_resp.resp) IN
       IF cmd.res # "ok"
       THEN m_pc' = cmd.res /\ m_acks' = m_acks
       ELSE /\ m_pc' = "add"
            /\ m_acks' = IF IsGetAck(cmd)
                         THEN Append(m_acks, [off |-> AckOffset(m_offset, m_resp.size),
                                              at |-> Len(delivered)])
                         ELSE m_acks
    /\ UNCHANGED <<keyspaceVars, replVars, ncmds, state_repl_offset, rout, now, purger, role,
                   codecVars, genVars, hs, stopVars, snap, pc, cur, txnVars, tmp, out, connVars,
                   link, waitVars, wire, sent, arrived, rbuf, m_resp, m_offset, delivered>>

\* Handler::run_master: offset.fetch_add(size), after the apply
MasterAdd ==
    /\ m_pc = "add"
    /\ m_offset' = m_offset + m_resp.size
    /\ m_pc' = "parse"
    /\ UNCHANGED <<keyspaceVars, replVars, ncmds, state_repl_offset, rout, now, purger, role,
                   codecVars, genVars, hs, stopVars, snap, pc, cur, txnVars, tmp, out, connVars,
                   link, waitVars, wire, sent, arrived, rbuf, m_resp, m_acks, delivered>>

NextFeed ==
    \/ \E v \in WireFrames : PrimaryWrites(v)
    \/ \E n \in 1..(MaxWireCmds * GetAckLen) : ReadSocket(n)
    \/ ParseBuffer
    \/ MasterApply
    \/ MasterAdd

SpecFeed == Init /\ [][NextFeed]_vars

\* bytes of the first n commands the primary wrote
RECURSIVE SentBytes(_)
SentBytes(n) == IF n = 0 THEN 0 ELSE SentBytes(n - 1) + Len(write_frame(sent[n]))

\* C35: every offset the replica node writes in REPLCONF ACK answers a
\* GETACK of the primary and is the number of bytes of all the commands the
\* primary wrote before that GETACK: the bytes of the GETACK itself are not
\* in it, and those of every earlier command, earlier GETACKs included, are
C35_AckIsBytesBefore ==
    \A i \in DOMAIN m_acks :
        /\ m_acks[i].at \in DOMAIN sent
        /\ sent[m_acks[i].at] = GetAckFrame
        /\ m_acks[i].off = SentBytes(m_acks[i].at - 1)

C35_Witness ==
    /\ Len(m_acks) = 2
    /\ m_acks[2].off = 27 + GetAckLen
    /\ m_pc = "parse"
    /\ m_offset = 27 + GetAckLen + GetAckLen

\* what read_resp returns when the whole of buf is in the buffer at once
RECURSIVE ReadAll(_)
ReadAll(buf) ==
    IF buf = <<>> \/ check(buf, 0).res # "ok" \/ parse_resp(buf, 0).res # "ok" THEN <<>>
    ELSE <<[resp |-> parse_resp(buf, 0).val, size |-> check(buf, 0).pos]>>
         \o ReadAll(SubSeq(buf, check(buf, 0).pos + 1, Len(buf)))

\* C38: what the successive calls of read_resp return depends on the bytes
\* received only: whatever the split into socket reads, the calls do not
\* fail and the i-th call returns the value and the length that it returns
\* when all the bytes arrive in one read
C38_SplitIndependent ==
    /\ m_pc \notin {"panic", "err"}
    /\ \A i \in DOMAIN delivered :
          i <= Len(ReadAll(wire)) /\ delivered[i] = ReadAll(wire)[i]

\* ---------------------------------------------------------------------
\* what the primary puts on the socket of one replica connection
\* ---------------------------------------------------------------------
MaxSockCmds == 4

\* the shortest value whose length write_decimal cannot write
LongLen == 10 ^ DecimalBuf

\* SET x <LongLen bytes>, as a client sent it and the fan-out writes it
LongSetFrame ==
    Array(<<Bulk(<<"S", "E", "T">>), Bulk(<<"x">>), Bulk([i \in 1..LongLen |-> "v"])>>)

\* Handler::run, arm Command::Set: connection.write_frame(&resp) on the
\* replica connection, under the write lock of the replica set; a panic of
\* write_decimal unwinds the handler task and leaves the connection in the set
FanOutWrites(v) ==
    /\ Len(sent) < MaxSockCmds
    /\ sent' = Append(sent, v)
    /\ wire' = wire \o written(v)
    /\ UNCHANGED <<keyspaceVars, replVars, ncmds, state_repl_offset, rout, now, purger, role,
                   codecVars, genVars, hs, stopVars, snap, pc, cur, txnVars, tmp, out, connVars,
                   link, waitVars, arrived, rbuf, m_pc, m_resp, m_offset, m_acks, delivered>>

\* collector task of WAIT: write_frame of REPLCONF GETACK * under a timeout
\* of 5 ms, under the same lock; the write is finished in time
ProbeWrites ==
    /\ Len(sent) < MaxSockCmds
    /\ sent' = Append(sent, GetAckFrame)
    /\ wire' = wire \o written(GetAckFrame)
    /\ UNCHANGED <<keyspaceVars, replVars, ncmds, state_repl_offset, rout, now, purger, role,
                   codecVars, genVars, hs, stopVars, snap, pc, cur, txnVars, tmp, out, connVars,
                   link, waitVars, arrived, rbuf, m_pc, m_resp, m_offset, m_acks, delivered>>

NextSock ==
    \/ \E v \in {SetFrame, LongSetFrame} : FanOutWrites(v)
    \/ ProbeWrites

SpecSock == Init /\ [][NextSock]_vars

\* the encodings of the first n commands, one after the other
RECURSIVE Encoded(_)
Encoded(n) == IF n = 0 THEN <<>> ELSE Encoded(n - 1) \o write_frame(sent[n])

\* C36: the bytes on the socket of a replica connection are the commands
\* the primary wrote to it, whole and one after the other
C36_WrittenWhole == wire = Encoded(Len(sent))

\* the XADD requests that were answered with an id, with that id
Acked == {<<c, i>> \in Clients \X (1..MaxStreamCmds) :
             /\ i \in DOMAIN out[c]
             /\ out[c][i].op = "XADD"
             /\ out[c][i].r[1] = "bulk"}

\* C37: every XADD that was answered with an id has its entry, under that
\* id, in the stream stored at its key, and no two XADD are answered with
\* the same id
C37_NoAppendLost ==
    /\ \A a \in Acked :
          \E j \in DOMAIN Entries("x") :
              /\ Entries("x")[j].pairs = out[a[1]][a[2]].id
              /\ FormatId(Entries("x")[j].id) = out[a[1]][a[2]].r[2]
    /\ \A a, b \in Acked : a # b => out[a[1]][a[2]].r # out[b[1]][b[2]].r

\* ---------------------------------------------------------------------
\* start-up of a replica node: Listener::handshake, listen_to_master, run
\* ---------------------------------------------------------------------
\* the ports a replica node is started on
Ports == {6380, 6381}

\* the steps of the start-up: a write_frame or a read_resp of the handshake,
\* then listen_to_master, then Listener::run
HsSteps == <<"write", "read", "write", "read", "write", "read", "write", "read", "read",
             "listen", "run", "serving">>

\* the command the handshake writes at an odd step
HsCommand(step, port) ==
    CASE step = 1 -> Array(<<Bulk("ping")>>)
      [] step = 3 -> Array(<<Bulk("REPLCONF"), Bulk("listening-port"), Bulk(FormatU64(port))>>)
      [] step = 5 -> Array(<<Bulk("REPLCONF"), Bulk("capa"), Bulk("eof"), Bulk("psync2")>>)
      [] step = 7 -> Array(<<Bulk("PSYNC"), Bulk("?"), Bulk("-1")>>)

\* the frames a primary of this program writes on the connection, in order:
\* the replies to PING and to the two REPLCONF, then +FULLRESYNC and the
\* snapshot for PSYNC
PrimaryFrame(n) ==
    CASE n = 1 -> Simple("PONG")
      [] n \in {2, 3} -> OK
      [] n = 4 -> Simple("+FULLRESYNC")
      [] n = 5 -> File("rdb")

\* how many frames the primary owes after n commands
FramesDue(n) == IF n < 4 THEN n ELSE 5

\* the node is started with --replicaof and a port
HsConfigure(p) ==
    /\ hs.step = 0
    /\ hs' = [hs EXCEPT !.step = 1, !.port = p]
    /\ UNCHANGED <<keyspaceVars, replVars, ncmds, state_repl_offset, rout, now, purger, role,
                   codecVars, genVars, feedVars, stopVars, snap, pc, cur, txnVars, tmp, out,
                   connVars, link, waitVars>>

\* Listener::handshake, connection.write_frame(..).await?: the command goes
\* out; on a connection the primary has closed the write may also fail,
\* which ends the start-up
HsWrite(ok) ==
    /\ hs.step \in DOMAIN HsSteps
    /\ HsSteps[hs.step] = "write"
    /\ ~hs.failed
    /\ ok \/ hs.up = "closed"
    /\ hs' = IF ok
             THEN [hs EXCEPT !.step = @ + 1, !.sent = Append(@, HsCommand(hs.step, hs.port))]
             ELSE [hs EXCEPT !.failed = TRUE]
    /\ UNCHANGED <<keyspaceVars, replVars, ncmds, state_repl_offset, rout, now, purger, role,
                   codecVars, genVars, feedVars, stopVars, snap, pc, cur, txnVars, tmp, out,
                   connVars, link, waitVars>>

\* Listener::handshake, connection.read_resp().await?: a frame that is there
\* is returned; at the end of a closed stream read_resp returns Ok(None),
\* which the handshake takes like a frame, or an error, which ends the start-up
HsRead(eof) ==
    /\ hs.step \in DOMAIN HsSteps
    /\ HsSteps[hs.step] = "read"
    /\ ~hs.failed
    /\ IF hs.inbox # <<>>
       THEN /\ eof = "none"
            /\ hs' = [hs EXCEPT !.step = @ + 1, !.got = Append(@, Head(hs.inbox)),
                                !.inbox = Tail(@)]
       ELSE /\ hs.up = "closed"
            /\ hs' = IF eof = "none"
                     THEN [hs EXCEPT !.step = @ + 1, !.got = Append(@, None)]
                     ELSE [hs EXCEPT !.failed = TRUE]
    /\ UNCHANGED <<keyspaceVars, replVars, ncmds, state_repl_offset, rout, now, purger, role,
                   codecVars, genVars, feedVars, stopVars, snap, pc, cur, txnVars, tmp, out,
                   connVars, link, waitVars>>

\* Listener::listen_to_master: the task of run_master is spawned
HsListen ==
    /\ hs.step \in DOMAIN HsSteps
    /\ HsSteps[hs.step] = "listen"
    /\ ~hs.failed
    /\ hs' = [hs EXCEPT !.step = @ + 1, !.tasks = @ \cup {"run_master"}]
    /\ UNCHANGED <<keyspaceVars, replVars, ncmds, state_repl_offset, rout, now, purger, role,
                   codecVars, genVars, feedVars, stopVars, snap, pc, cur, txnVars, tmp, out,
                   connVars, link, waitVars>>

\* run: server.run() is polled, the node accepts connections
HsRun ==
    /\ hs.step \in DOMAIN HsSteps
    /\ HsSteps[hs.step] = "run"
    /\ ~hs.failed
    /\ hs' = [hs EXCEPT !.step = @ + 1, !.tasks = @ \cup {"accept"}]
    /\ UNCHANGED <<keyspaceVars, replVars, ncmds, state_repl_offset, rout, now, purger, role,
                   codecVars, genVars, feedVars, stopVars, snap, pc, cur, txnVars, tmp, out,
                   connVars, link, waitVars>>

\* the primary answers the next command it was sent
PrimaryAnswers ==
    /\ hs.up = "open"
    /\ hs.ans < FramesDue(Len(hs.sent))
    /\ hs' = [hs EXCEPT !.ans = @ + 1, !.inbox = Append(@, PrimaryFrame(hs.ans + 1))]
    /\ UNCHANGED <<keyspaceVars, replVars, ncmds, state_repl_offset, rout, now, purger, role,
                   codecVars, genVars, feedVars, stopVars, snap, pc, cur, txnVars, tmp, out,
                   connVars, link, waitVars>>

\* the primary goes away: its end of the connection is closed
PrimaryCloses ==
    /\ hs.step > 0
    /\ hs.up = "open"
    /\ hs' = [hs EXCEPT !.up = "closed"]
    /\ UNCHANGED <<keyspaceVars, replVars, ncmds, state_repl_offset, rout, now, purger, role,
                   codecVars, genVars, feedVars, stopVars, snap, pc, cur, txnVars, tmp, out,
                   connVars, link, waitVars>>

NextHs ==
    \/ \E p \in Ports : HsConfigure(p)
    \/ \E ok \in BOOLEAN : HsWrite(ok)
    \/ \E eof \in {"none", "err"} : HsRead(eof)
    \/ HsListen
    \/ HsRun
    \/ PrimaryAnswers
    \/ PrimaryCloses

SpecHs == Init /\ [][NextHs]_vars

\* the commands of the handshake, in order
HsOrder(port) == [k \in 1..4 |-> HsCommand(2 * k - 1, port)]

\* C39: the replica node sends PING, REPLCONF listening-port, REPLCONF capa
\* and PSYNC in that order, each one after it has read a reply to the one
\* before, and spawns run_master and accepts connections only after it has
\* read the reply to PSYNC and the snapshot
C39_HandshakeInOrder ==
    /\ Len(hs.sent) <= 4
    /\ \A k \in DOMAIN hs.sent : hs.sent[k] = HsOrder(hs.port)[k]
    /\ \A k \in DOMAIN hs.sent :
          k > 1 => (k - 1 \in DOMAIN hs.got /\ hs.got[k - 1][1] # "none")
    /\ hs.tasks # {} =>
          /\ Len(hs.got) = 5
          /\ hs.got[4][1] = "simple"
          /\ hs.got[5][1] = "file"

\* ---------------------------------------------------------------------
\* the expiry index under SET, INCR, XADD and the purger
\* ---------------------------------------------------------------------
MaxIndexCmds == 3

MaxIndexNow == 2

IndexClock == now < MaxIndexNow /\ Clock

\* one client stores x with two durations and adds an entry to it, while a
\* second one stores x with and without a duration and increments it
IndexInputs(c, id) ==
    IF c = "c1"
    THEN {SetPxCmd(id, "x", <<"1">>, 1), SetPxCmd(id, "x", <<"1">>, 2),
          XAddCmd(id, "x", <<"1", "-", "*">>)}
    ELSE {SetPxCmd(id, "x", <<"1">>, 1), SetCmd(id, "x", <<"1">>), IncrCmd(id, "x")}

NextIndex ==
    \/ \E c \in Clients : \E cmd \in IndexInputs(c, ncmds + 1) :
          ncmds < MaxIndexCmds /\ Recv(c, cmd)
    \/ \E c \in Clients : FanOut(c)
    \/ \E c \in Clients : BumpMaster(c)
    \/ \E c \in Clients : BumpReplicas(c)
    \/ \E c \in Clients : ApplySet(c)
    \/ \E c \in Clients : IncrGet(c)
    \/ \E c \in Clients : IncrSet(c)
    \/ \E c \in Clients : XAddGet(c)
    \/ \E c \in Clients : XAddSet(c)
    \/ PurgerRun
    \/ IndexClock

SpecIndex == Init /\ [][NextIndex]_vars

\* C40: every stored entry that has a deadline has the pair of that
\* deadline and its key in the expiry index
C40_DeadlineIndexed ==
    \A k \in StoreKeys :
        (db[k] # None /\ expires_at[k] # NoExpiry) => <<expires_at[k], k>> \in expirations

\* an entry with a deadline that replaced one with an earlier deadline,
\* after the purger has run and time has passed
C40_Witness ==
    /\ db["x"] # None
    /\ expires_at["x"] # NoExpiry
    /\ \E e \in expirations : e[2] = "x" /\ e[1] < expires_at["x"]
    /\ now > 0
    /\ purger > 0

====
